---- MODULE Spec2Model ----
(***************************************************************************)
(* Model of the crawl clients of the Douyin / Bilibili / Xiaohongshu       *)
(* spiders: canonical query construction and request signing, the retrying *)
(* request executor, the browser walker, the field extractor and the       *)
(* detail-page enricher.                                                   *)
(*                                                                         *)
(* Text is modelled as sequences of one-character strings.  Characters     *)
(* outside ASCII are written with an ASCII name:                           *)
(*   "WAN" U+4E07   "ZAN" U+8D5E   "DIAN" U+70B9   "PING" U+8BC4           *)
(*   "LUN" U+8BBA   "BO" U+64AD    "FANG" U+653E   "MID" U+00B7            *)
(*   "FEN" U+5206   "XIANG" U+4EAB "SHOU" U+6536   "CANG" U+85CF           *)
(*   "TIAO" U+6761  "CI" U+6B21    "COLON_FW" U+FF1A                       *)
(*   "HEART" U+2764 "THUMB" U+1F44D  "SPEECH" U+1F4AC  "EYE" U+1F441       *)
(*   "OUTBOX" U+1F4E4  "STAR" U+2B50  "BOOKMARK" U+1F516                   *)
(***************************************************************************)
EXTENDS Integers, Sequences, FiniteSets, TLC

VARIABLES
    \* ---- canonical query (DouyinSpider._sort_params / _splice_url) ----
    qpc,            \* position of the caller: "params", "sorted", "spliced"
    params,         \* the parameter dict, in insertion order: <<[k, v], ...>>
    sorted_params,  \* result of _sort_params(params)
    query_str,      \* result of _splice_url(sorted_params)
    \* ---- retrying request executor (BilibiliSpider._make_request) ----
    rpc,            \* "idle", "loop", "http", "except", "done"
    max_retries,    \* BilibiliSpider.max_retries (also the adapter's Retry.total)
    caller,         \* "make_request" (direct call) or "get_video_detail"
    retries,        \* the retries argument of _make_request
    attempt,        \* loop variable of _make_request
    adapter_left,   \* retries the mounted Retry adapter has left in this session.get
    server,         \* what the remote end answers: [status, forever, fail_left]
    http_attempts,  \* HTTP requests sent so far for this call
    error,          \* the exception in flight or raised last ("" when none)
    outcome,        \* "", "response", "raised", "empty" (get_video_detail's {})
    sleep_log,      \* the time.sleep calls made, in tenths of a second
    \* ---- crawl loops (crawl / crawl_with_selenium / search_videos_with_selenium) ----
    cpc,            \* "idle", "loop", "return", "done"
    spider,         \* "douyin", "bilibili", "xiaohongshu"
    use_selenium,   \* the use_selenium argument of crawl
    max_pages_arg,  \* the max_pages argument of crawl, as the caller passed it
    max_pages,      \* max_pages as the loop uses it
    max_videos,     \* the max_videos argument of BilibiliSpider.crawl
    page,           \* pages / scroll rounds completed
    all_videos,     \* the records collected so far
    crawl_result,   \* the list crawl returned
    video_cards,    \* how many elements the round under way found
    to_process,     \* how many of the elements to process are still to come
    card,           \* <<>> or <<the element processed last in this round>>
    page_videos,    \* the records this round has added
    round_error,    \* where the latest round raised: "", "scroll", "refresh", "query",
                    \* "request"
    empty_rounds,   \* rounds in a row, up to now, that printed no element and no new record
    \* ---- field extractor (DouyinSpider._parse_selenium_element) ----
    epc,            \* "idle", "element", "enrich", "text", "fallback", "filter", "returned"
    element,        \* the card being parsed
    cookie_str,     \* whether the spider was given a cookie string
    counts,         \* like_count, comment_count, view_count, share_count, collect_count
    text_counts,    \* the counters as the free-text strategy left them
    detail_visited, \* _get_video_detail_from_page was called for the card
    record,         \* what the parser returned: <<>> for None, or <<record>>
    \* ---- login handling (crawl_with_selenium of Douyin / Xiaohongshu) ----
    lpc,            \* "idle", "check", "wait", "verify", "input", "crawl", "cancelled",
                    \* "finally", "final_save", "returned"
    site,           \* "douyin" or "xiaohongshu"
    wall_clears,    \* whether the person at the browser ever logs in
    logged_in,      \* whether the session is logged in now
    wait_i,         \* seconds left of the countdown
    retry,          \* verification rounds done
    login_success,  \* login_success of the Douyin walker
    elapsed,        \* seconds spent since the login check
    input_waited,   \* seconds spent blocked in input()
    cookies_saved,  \* whether _save_cookies has written the cookie file
    cookies_changed, \* the session has cookies that are not in the cookie file
    driver_quit,    \* driver.quit() was called
    browser_failed, \* the scroll loop ended by an exception
    \* ---- detail-page enricher (_get_video_detail_from_page / _get_note_detail_from_page) ----
    npc,            \* "idle", "call", "get", "extract", "open", "read", "returned"
    enricher,       \* "douyin" or "xiaohongshu"
    windows,        \* the browser's windows in handle order: <<[handle, page], ...>>
    current_window_handle,        \* handle of the window the driver is switched to
    original_window,\* the handle the enricher noted at entry
    cards_left,     \* cards of the list page still to enrich, this one included
    returned_data,  \* what the enricher returned: <<>> for {} or None, or <<data>>
    \* ---- signature engine and signed API operations ----
    spc,            \* "idle", "new" (before __init__), "ready"
    execjs_available, \* EXECJS_AVAILABLE: import execjs worked
    dy_ab_path,     \* whether dy_ab.js was found
    node_modules,   \* whether a node_modules directory was found
    api_cookie,     \* self.cookie_str: "none", "plain", or "full" (s_v_web_id and msToken)
    dy_js,          \* whether self.dy_js holds a compiled engine
    compile_calls,  \* execjs.compile calls made so far
    calls_left,     \* API operations the client still makes
    call_log,       \* the operations made: <<[op, params, query_str, a_bogus, requests], ...>>
    popen_before,   \* subprocess.Popen before the client is constructed
    popen,          \* subprocess.Popen now
    popen_log,      \* the values assigned to subprocess.Popen by the construction
    \* ---- top comments (get_comments of the three spiders) ----
    mpc,            \* "idle", "call", "returned"
    comment_path,   \* the extraction path that finds the comments
    top_n,          \* the top_n argument
    post_id,        \* the video or note the comments are asked for
    comment_blocks, \* the comments collected: <<[pattern, likes], ...>>
    comments,       \* the list get_comments returns
    \* ---- cookie restore (_load_cookies and its caller) ----
    kpc,            \* "idle", "load", "loop", "returned", "search"
    cookie_file,    \* state of the cookie file
    file_cookies,   \* the list the file unpickles to
    cookie_i,       \* position of the loop over the cookies
    handed,         \* the cookies passed to driver.add_cookie, as key sets
    browser_cookies, \* the cookies the browser took
    cookies_loaded, \* <<>> before the return, then <<what _load_cookies returned>>
    page_opened,    \* the page the walker has opened: "home", "search"
    \* ---- Bilibili's browser walker (search_videos_with_selenium) ----
    bpc,            \* "idle", "page", "elements", "next", "returned"
    api_limit,      \* self.api_limit
    bili_max_pages, \* the max_pages argument
    bili_max_videos, \* the max_videos argument
    bili_page,      \* page of the page loop
    bvids,          \* the Post_IDs of all_videos
    elements_left,  \* elements of the page still to process
    detail_calls,   \* get_video_detail calls made
    browser_page,   \* the result page the browser shows
    url_has_page,   \* whether driver.current_url has a page parameter
    next_button,    \* how the page was turned last: "", "clicked", "missing", "raised"
    \* ---- life of the browser in a browser crawl ----
    tpc,            \* "idle", "create", "open_pages", "login", "loop", "except",
                    \* "finally", "after", "returned"
    walker,         \* "douyin" (crawl_with_selenium), "bilibili" (search_videos_with_selenium)
    driver,         \* "none" (None), "open", "quit"
    quit_calls,     \* driver.quit() calls made
    videos_collected, \* len(all_videos)
    pending_return, \* a return [] is on its way through the finally block
    step_failed,    \* the step that raised last, "" for none
    returned        \* length of the list returned, -1 before the return

qvars == <<qpc, params, sorted_params, query_str>>
rvars == <<rpc, max_retries, caller, retries, attempt, adapter_left, server,
           http_attempts, error, outcome, sleep_log>>
cvars == <<cpc, spider, use_selenium, max_pages_arg, max_pages, max_videos, page, all_videos, crawl_result,
           video_cards, to_process, card, page_videos, round_error, empty_rounds>>
evars == <<epc, element, cookie_str, counts, text_counts, detail_visited, record>>
lvars == <<lpc, site, wall_clears, logged_in, wait_i, retry, login_success, elapsed,
           input_waited, cookies_saved, cookies_changed, driver_quit, browser_failed>>
nvars == <<npc, enricher, windows, current_window_handle, original_window, cards_left, returned_data>>
svars == <<spc, execjs_available, dy_ab_path, node_modules, api_cookie, dy_js, compile_calls,
           calls_left, call_log, popen_before, popen, popen_log>>
mvars == <<mpc, comment_path, top_n, post_id, comment_blocks, comments>>
kvars == <<kpc, cookie_file, file_cookies, cookie_i, handed, browser_cookies, cookies_loaded,
           page_opened>>
bvars == <<bpc, api_limit, bili_max_pages, bili_max_videos, bili_page, bvids, elements_left,
           detail_calls, browser_page, url_has_page, next_button>>
tvars == <<tpc, walker, driver, quit_calls, videos_collected, pending_return, step_failed, returned>>
vars == <<qvars, rvars, cvars, evars, lvars, nvars, svars, mvars, kvars, bvars, tvars>>
\* what the actions of one component leave alone
nonQuery == <<rvars, cvars, evars, lvars, nvars, svars, mvars, kvars, bvars, tvars>>
nonRetry == <<qvars, cvars, evars, lvars, nvars, svars, mvars, kvars, bvars, tvars>>
nonCrawl == <<qvars, rvars, evars, lvars, nvars, svars, mvars, kvars, bvars, tvars>>
nonExtract == <<qvars, rvars, cvars, lvars, nvars, svars, mvars, kvars, bvars, tvars>>
nonLogin == <<qvars, rvars, cvars, evars, nvars, svars, mvars, kvars, bvars, tvars>>
nonEnrich == <<qvars, rvars, cvars, evars, lvars, svars, mvars, kvars, bvars, tvars>>
nonSign == <<qvars, rvars, cvars, evars, lvars, nvars, mvars, kvars, bvars, tvars>>
nonComments == <<qvars, rvars, cvars, evars, lvars, nvars, svars, kvars, bvars, tvars>>
nonRestore == <<qvars, rvars, cvars, evars, lvars, nvars, svars, mvars, bvars, tvars>>
nonBili == <<qvars, rvars, cvars, evars, lvars, nvars, svars, mvars, kvars, tvars>>
nonTeardown == <<qvars, rvars, cvars, evars, lvars, nvars, svars, mvars, kvars, bvars>>

(***************************************************************************)
(* Generic helpers                                                         *)
(***************************************************************************)
\* Python's None where a text is expected (no text is this sequence)
None == <<"None">>

Range(s) == {s[i] : i \in 1..Len(s)}

RECURSIVE Concat(_)
Concat(ss) == IF ss = <<>> THEN <<>> ELSE Head(ss) \o Concat(Tail(ss))

\* index of the first occurrence of x in s, 0 when absent
IndexOf(s, x) ==
    IF x \in Range(s) THEN CHOOSE i \in 1..Len(s) : s[i] = x /\ \A j \in 1..(i-1) : s[j] # x
    ELSE 0

(***************************************************************************)
(* Canonical query: DouyinSpider._sort_params and _splice_url              *)
(***************************************************************************)
\* the platform's parameter order (douyin_spider.py, _sort_params)
order ==
    << "device_platform", "aid", "channel", "publish_video_strategy_type",
       "source", "sec_user_id", "personal_center_strategy", "update_version_code",
       "pc_client_type", "version_code", "version_name", "cookie_enabled",
       "screen_width", "screen_height", "browser_language", "browser_platform",
       "browser_name", "browser_version", "browser_online", "engine_name",
       "engine_version", "os_name", "os_version", "cpu_core_num",
       "device_memory", "platform", "downlink", "effective_type",
       "round_trip_time", "webid", "verifyFp", "fp",
       "msToken", "a_bogus", "aweme_id", "search_channel",
       "keyword", "offset", "count", "filter_selected",
       "enable_history", "search_source", "query_correct_type", "is_filter_search",
       "from_group_id", "need_filter_settings", "list_type" >>

\* a dict's key list, in insertion order
DictKeys(d) == [i \in 1..Len(d) |-> d[i].k]

\* d[key] for a key of the dict
DictGet(d, key) == d[IndexOf(DictKeys(d), key)].v

\* first loop of _sort_params: for key in order: if key in params
RECURSIVE SortListed(_, _)
SortListed(p, i) ==
    IF i > Len(order) THEN <<>>
    ELSE IF order[i] \in Range(DictKeys(p))
         THEN <<[k |-> order[i], v |-> DictGet(p, order[i])]>> \o SortListed(p, i + 1)
         ELSE SortListed(p, i + 1)

\* second loop of _sort_params: for key, value in params.items():
\*     if key not in sorted_params
RECURSIVE SortUnlisted(_, _, _)
SortUnlisted(p, acc, i) ==
    IF i > Len(p) THEN acc
    ELSE IF p[i].k \in Range(DictKeys(acc))
         THEN SortUnlisted(p, acc, i + 1)
         ELSE SortUnlisted(p, Append(acc, p[i]), i + 1)

\* a plausible slip: the keys absent from the order table are not appended
SortParamsDropsUnlisted(p) == SortListed(p, 1)

SortParams(p) == SortUnlisted(p, SortListed(p, 1), 1)

\* characters urllib.parse.quote leaves alone (unreserved, and safe='/')
Letters == {"a","b","c","d","e","f","g","h","i","j","k","l","m","n","o","p","q",
            "r","s","t","u","v","w","x","y","z",
            "A","B","C","D","E","F","G","H","I","J","K","L","M","N","O","P","Q",
            "R","S","T","U","V","W","X","Y","Z"}
Digits == {"0","1","2","3","4","5","6","7","8","9"}
QuoteSafe == Letters \cup Digits \cup {"_", ".", "-", "~", "/"}

\* %XX of the reserved characters the model's values use
PercentCode(c) ==
    CASE c = " " -> <<"%","2","0">>
      [] c = "&" -> <<"%","2","6">>
      [] c = "=" -> <<"%","3","D">>
      [] c = "%" -> <<"%","2","5">>
      [] c = "?" -> <<"%","3","F">>

\* urllib.parse.quote(s)
RECURSIVE Quote(_)
Quote(s) ==
    IF s = <<>> THEN <<>>
    ELSE (IF Head(s) \in QuoteSafe THEN <<Head(s)>> ELSE PercentCode(Head(s)))
         \o Quote(Tail(s))

\* the characters of the parameter names the model's inputs use
KeyChars(key) ==
    CASE key = "keyword" -> <<"k","e","y","w","o","r","d">>
      [] key = "aid" -> <<"a","i","d">>
      [] key = "offset" -> <<"o","f","f","s","e","t">>
      [] key = "cursor" -> <<"c","u","r","s","o","r">>
      [] key = "item_type" -> <<"i","t","e","m","_","t","y","p","e">>
      [] key = "device_platform" -> <<"d","e","v","i","c","e","_","p","l","a","t","f","o","r","m">>
      [] key = "aweme_id" -> <<"a","w","e","m","e","_","i","d">>
      [] key = "webid" -> <<"w","e","b","i","d">>
      [] key = "verifyFp" -> <<"v","e","r","i","f","y","F","p">>
      [] key = "fp" -> <<"f","p">>
      [] key = "msToken" -> <<"m","s","T","o","k","e","n">>

\* the loop of _splice_url: key + '=' + quote(str(value)) + '&' for each item
RECURSIVE SpliceLoop(_)
SpliceLoop(d) ==
    IF d = <<>> THEN <<>>
    ELSE KeyChars(Head(d).k) \o <<"=">>
         \o Quote(IF Head(d).v = None THEN <<>> ELSE Head(d).v) \o <<"&">>
         \o SpliceLoop(Tail(d))

\* s[:-1]
DropLast(s) == IF s = <<>> THEN <<>> ELSE SubSeq(s, 1, Len(s) - 1)

\* a plausible slip: the trailing separator is not cut off
SpliceUrlKeepsSeparator(d) == SpliceLoop(d)

SpliceUrl(d) == DropLast(SpliceLoop(d))

(***************************************************************************)
(* Inputs of the canonical query                                           *)
(***************************************************************************)
MaxParams == 3

QueryKeys == {"keyword", "aid", "offset", "cursor", "item_type", "device_platform"}

\* the further keys the API operations add
ApiKeys == {"aweme_id", "webid", "verifyFp", "fp", "msToken"}

\* the values a key takes in the model: a plain one, and one that needs care
ValuesOf(key) ==
    CASE key = "keyword" -> {<<"x">>, <<"a"," ","b">>}
      [] key = "aid" -> {<<"6","3","8","3">>, None}
      [] key = "offset" -> {<<"0">>, <<"2","5">>}
      [] key = "cursor" -> {<<"0">>, <<"k","=","v">>}
      [] key = "item_type" -> {<<"0">>, <<"1","&","2">>}
      [] key = "device_platform" -> {<<"w","e","b","a","p","p">>, <<"a","?","%">>}

\* dicts: sequences of items with pairwise distinct keys
RECURSIVE DictsOfLen(_)
DictsOfLen(n) ==
    IF n = 0 THEN {<<>>}
    ELSE UNION {UNION {{Append(d, [k |-> key, v |-> val]) : val \in ValuesOf(key)} :
                       key \in QueryKeys \ Range(DictKeys(d))} :
                d \in DictsOfLen(n - 1)}

ParamDicts == UNION {DictsOfLen(n) : n \in 0..MaxParams}

QStart ==
    /\ qpc = "params"
    /\ params \in ParamDicts
    /\ sorted_params = <<>>
    /\ query_str = <<>>

QIdle ==
    /\ qpc = "idle"
    /\ params = <<>>
    /\ sorted_params = <<>>
    /\ query_str = <<>>

\* sorted_params = self._sort_params(params)
CallSortParams ==
    /\ qpc = "params"
    /\ sorted_params' = SortParams(params)
    /\ qpc' = "sorted"
    /\ UNCHANGED <<params, query_str, nonQuery>>

\* query_str = self._splice_url(sorted_params)
CallSpliceUrl ==
    /\ qpc = "sorted"
    /\ query_str' = SpliceUrl(sorted_params)
    /\ qpc' = "spliced"
    /\ UNCHANGED <<params, sorted_params, nonQuery>>

QNext == CallSortParams \/ CallSpliceUrl

(***************************************************************************)
(* Retrying request executor: BilibiliSpider._make_request, on a session   *)
(* whose adapter carries Retry(total=max_retries, status_forcelist=...)    *)
(***************************************************************************)
MaxRetriesArg == 2      \* largest max_retries the model constructs a spider with
MaxFailures == 2        \* a recovering server fails at most this many times

\* Retry(status_forcelist=[429, 500, 502, 503, 504])
status_forcelist == {429, 500, 502, 503, 504}

\* get_video_detail: self._make_request(url, params=params, retries=3)
DetailRetries == 3

\* the status recorded for a request that got no answer in time
TimedOut == 0

ServerStatuses == {503, 429, 404, TimedOut}

\* the status of the next HTTP attempt
NextStatus == IF server.forever \/ server.fail_left > 0 THEN server.status ELSE 200

ServerAfterAttempt ==
    IF server.fail_left > 0 THEN [server EXCEPT !.fail_left = @ - 1] ELSE server

RIdle ==
    /\ rpc = "idle"
    /\ max_retries = 0
    /\ caller = ""
    /\ retries = 0
    /\ attempt = 0
    /\ adapter_left = 0
    /\ server = [status |-> 200, forever |-> FALSE, fail_left |-> 0]
    /\ http_attempts = 0
    /\ error = ""
    /\ outcome = ""
    /\ sleep_log = <<>>

\* BilibiliSpider(max_retries=n) and a call of _make_request, directly
\* (retries=None) or from get_video_detail
RStart ==
    /\ rpc = "call"
    /\ max_retries \in 0..MaxRetriesArg
    /\ caller \in {"make_request", "get_video_detail"}
    /\ retries = 0
    /\ attempt = 0
    /\ adapter_left = 0
    /\ server \in [status : ServerStatuses, forever : BOOLEAN, fail_left : 0..MaxFailures]
    /\ http_attempts = 0
    /\ error = ""
    /\ outcome = ""
    /\ sleep_log = <<>>

\* entry: get_video_detail sleeps uniform(0.8, 1.5) and passes retries=3;
\* a direct call has retries=None, replaced by self.max_retries
EnterMakeRequest ==
    /\ rpc = "call"
    /\ IF caller = "get_video_detail"
       THEN /\ retries' = DetailRetries
            /\ \E d \in {8, 15} : sleep_log' = Append(sleep_log, [by |-> "detail_delay", ds |-> d])
       ELSE /\ retries' = max_retries
            /\ sleep_log' = sleep_log
    /\ attempt' = 0
    /\ rpc' = "loop"
    /\ UNCHANGED <<max_retries, caller, adapter_left, server, http_attempts, error, outcome, nonRetry>>

\* for attempt in range(retries + 1): self.session.get(...) is handed to the adapter
SessionGet ==
    /\ rpc = "loop"
    /\ adapter_left' = max_retries
    /\ rpc' = "http"
    /\ UNCHANGED <<max_retries, caller, retries, attempt, server, http_attempts, error,
                   outcome, sleep_log, nonRetry>>

\* the exception session.get raises once the adapter gives up on a status
ExhaustedError(status) == IF status = TimedOut THEN "ConnectTimeout" ELSE "RetryError"

\* one HTTP request inside session.get, and what the adapter does with the answer:
\* a forcelist status or a timeout is resent while Retry.total lasts and raises
\* after it; any other status is returned, and raise_for_status raises HTTPError
\* for 4xx/5xx
HttpAttempt ==
    /\ rpc = "http"
    /\ http_attempts' = http_attempts + 1
    /\ server' = ServerAfterAttempt
    /\ LET status == NextStatus
       IN  IF status \in status_forcelist \/ status = TimedOut
           THEN IF adapter_left > 0
                THEN /\ adapter_left' = adapter_left - 1
                     /\ rpc' = "http"
                     /\ UNCHANGED <<error, outcome>>
                ELSE /\ error' = ExhaustedError(status)
                     /\ rpc' = "except"
                     /\ UNCHANGED <<adapter_left, outcome>>
           ELSE IF status >= 400
                THEN /\ error' = "HTTPError"
                     /\ rpc' = "except"
                     /\ UNCHANGED <<adapter_left, outcome>>
                ELSE /\ outcome' = "response"
                     /\ error' = ""
                     /\ rpc' = "done"
                     /\ UNCHANGED adapter_left
    /\ UNCHANGED <<max_retries, caller, retries, attempt, sleep_log, nonRetry>>

\* what get_video_detail does with an exception of _make_request: the 429
\* branch sleeps uniform(3, 5) when "e.response and e.response.status_code == 429";
\* a Response with an error status is falsy, so the branch is never taken
DetailCooldown(err, status) ==
    IF err = "HTTPError" /\ status < 400 /\ status = 429 THEN {30, 50} ELSE {}

\* except Timeout / except RequestException: wait (attempt + 1) * 2 seconds and
\* go round again while attempt < retries, otherwise re-raise; get_video_detail
\* catches what is raised and returns {}
HandleException ==
    /\ rpc = "except"
    /\ IF attempt < retries
       THEN /\ sleep_log' = Append(sleep_log, [by |-> "retry_wait", ds |-> (attempt + 1) * 2 * 10])
            /\ attempt' = attempt + 1
            /\ rpc' = "loop"
            /\ UNCHANGED <<outcome>>
       ELSE /\ rpc' = "done"
            /\ attempt' = attempt
            /\ IF caller = "get_video_detail"
               THEN /\ outcome' = "empty"
                    /\ IF DetailCooldown(error, server.status) = {}
                       THEN sleep_log' = sleep_log
                       ELSE \E d \in DetailCooldown(error, server.status) :
                               sleep_log' = Append(sleep_log, [by |-> "cooldown", ds |-> d])
               ELSE /\ outcome' = "raised"
                    /\ sleep_log' = sleep_log
    /\ UNCHANGED <<max_retries, caller, retries, adapter_left, server, http_attempts, error, nonRetry>>

RNext == EnterMakeRequest \/ SessionGet \/ HttpAttempt \/ HandleException

(***************************************************************************)
(* Crawl loops of the three spiders                                        *)
(***************************************************************************)
MaxPages == 2           \* largest max_pages argument
MaxPageItems == 2       \* most cards / result items on one page
MaxVideosArg == 2       \* a small max_videos target

PostIDs == {"id1", "id2"}

\* what a record holds besides its ID
RecordData == {"a", "b"}

\* a card of the list page or an item of a search response: whether it
\* carries the block the parser reads at all, the ID found in it ("" when
\* the ID is missing), the data found in it, and whether reading it raises
Items ==
    {it \in [info : BOOLEAN, id : PostIDs \cup {""}, data : RecordData, raises : BOOLEAN] :
        /\ ~it.info \/ it.id = "" => it.data = "a"
        /\ ~it.info => it.id = ""
        /\ it.raises => ~it.info}

PageLists == UNION {[1..n -> Items] : n \in 0..MaxPageItems}

\* the items of a search response: parsing them is not guarded item by item,
\* and what they hold besides the ID is not told apart
ResponseLists ==
    UNION {[1..n -> {it \in Items : ~it.raises /\ it.data = "a"}] : n \in 0..MaxPageItems}

\* BilibiliSpider.crawl: calculated_pages = (max_videos // 20) + 1
PageSize == 20

VideoTargets == {0, 1, MaxVideosArg, PageSize}

PostIDsOf(videos) == {videos[i].Post_ID : i \in 1..Len(videos)}

\* the records one search-response item parses to (none for a None result):
\* Bilibili's _parse_video_info returns None without a bvid; Douyin's
\* _parse_video_info and Xiaohongshu's _parse_note_info return None only
\* without the info block and copy the ID as it is, empty or not
ParseVideoInfo(sp, item) ==
    IF sp = "bilibili"
    THEN IF item.id = "" THEN <<>> ELSE <<[Post_ID |-> item.id, data |-> item.data]>>
    ELSE IF ~item.info THEN <<>> ELSE <<[Post_ID |-> item.id, data |-> item.data]>>

\* search_videos / search_notes: the parsed items of one response
SearchVideos(sp, items) ==
    Concat([i \in 1..Len(items) |-> ParseVideoInfo(sp, items[i])])

\* _parse_selenium_element: None when the card has no link with an ID
ParseSeleniumElement(el) ==
    IF el.info /\ el.id # "" THEN <<[Post_ID |-> el.id, data |-> el.data]>> ELSE <<>>

\* the mutation of AtTarget: the loops stop only above the target
AboveTarget == spider = "bilibili" /\ Len(all_videos) > max_videos

\* a plausible slip: a record with a known Post_ID replaces the one collected
AppendOrReplace(acc, video_info) ==
    IF video_info = <<>> \/ video_info[1].Post_ID = "" THEN acc
    ELSE IF video_info[1].Post_ID \notin PostIDsOf(acc) THEN acc \o video_info
    ELSE [i \in 1..Len(acc) |->
            IF acc[i].Post_ID = video_info[1].Post_ID THEN video_info[1] ELSE acc[i]]

\* the body of the card loop of the browser crawls: a parsed record with a
\* Post_ID that is not among existing_ids is appended
AppendIfNew(acc, video_info) ==
    IF /\ video_info # <<>>
       /\ video_info[1].Post_ID # ""
       /\ video_info[1].Post_ID \notin PostIDsOf(acc)
    THEN acc \o video_info
    ELSE acc

\* search_videos_with_selenium: len(elements_to_process), where
\* elements_to_process = video_elements[:remaining_needed] below the target
ElementsToProcess(collected, found, limit) ==
    IF collected < limit /\ found > limit - collected
    THEN limit - collected
    ELSE found

CIdle ==
    /\ cpc = "idle"
    /\ spider = ""
    /\ use_selenium = FALSE
    /\ max_pages_arg = 0
    /\ max_pages = 0
    /\ max_videos = 0
    /\ page = 0
    /\ all_videos = <<>>
    /\ crawl_result = <<>>
    /\ video_cards = 0
    /\ to_process = 0
    /\ card = <<>>
    /\ page_videos = <<>>
    /\ round_error = ""
    /\ empty_rounds = 0

\* spider.crawl(keyword, max_pages, [max_videos,] use_selenium)
CStart ==
    /\ cpc = "call"
    /\ spider \in {"douyin", "bilibili", "xiaohongshu"}
    /\ use_selenium \in BOOLEAN
    /\ max_pages_arg \in 1..MaxPages
    /\ max_pages = max_pages_arg
    /\ max_videos \in VideoTargets
    /\ page = 0
    /\ all_videos = <<>>
    /\ crawl_result = <<>>
    /\ video_cards = 0
    /\ to_process = 0
    /\ card = <<>>
    /\ page_videos = <<>>
    /\ round_error = ""
    /\ empty_rounds = 0

\* entry of crawl: with max_videos > 0 Bilibili raises max_pages to
\* max_videos // 20 + 1
EnterCrawl ==
    /\ cpc = "call"
    /\ max_pages' = IF /\ spider = "bilibili"
                       /\ max_videos > 0
                       /\ max_videos \div PageSize + 1 > max_pages
                    THEN max_videos \div PageSize + 1
                    ELSE max_pages
    /\ cpc' = "loop"
    /\ UNCHANGED <<spider, use_selenium, max_pages_arg, max_videos, page, all_videos,
                   crawl_result, video_cards, to_process, card, page_videos, round_error,
                   empty_rounds, nonCrawl>>

\* Bilibili's card loop and page loop stop at the target number of records
AtTarget == spider = "bilibili" /\ Len(all_videos) >= max_videos

\* the start of a page / scroll round of a browser crawl: the page is
\* scrolled and the elements are queried.  Douyin's refresh of the
\* page-global data is in a try of its own: when it raises the round goes on
BrowserRound ==
    /\ cpc = "loop"
    /\ use_selenium
    /\ page < max_pages
    /\ \E found \in 0..MaxPageItems :
          /\ video_cards' = found
          /\ to_process' = IF spider = "bilibili"
                           THEN ElementsToProcess(Len(all_videos), found, max_videos)
                           ELSE found
    /\ \E refresh_raises \in BOOLEAN :
          round_error' = IF spider = "douyin" /\ refresh_raises THEN "refresh" ELSE ""
    /\ card' = <<>>
    /\ page_videos' = <<>>
    /\ cpc' = "cards"
    /\ UNCHANGED <<spider, use_selenium, max_pages_arg, max_pages, max_videos, page, all_videos, crawl_result,
                   empty_rounds, nonCrawl>>

\* the card loop, one element: a record is parsed from it and appended when
\* its Post_ID is new; an element whose parsing raises is passed over
\* (except Exception: continue)
ProcessCard ==
    /\ cpc = "cards"
    /\ to_process > 0
    /\ ~AtTarget
    /\ \E el \in Items :
          LET video_info == IF el.raises THEN <<>> ELSE ParseSeleniumElement(el)
          IN  /\ card' = <<el>>
              /\ all_videos' = AppendIfNew(all_videos, video_info)
              /\ page_videos' = IF all_videos' # all_videos
                                THEN page_videos \o video_info
                                ELSE page_videos
    /\ to_process' = to_process - 1
    /\ UNCHANGED <<cpc, spider, use_selenium, max_pages_arg, max_pages, max_videos, page, crawl_result,
                   video_cards, round_error, empty_rounds, nonCrawl>>

\* the end of a round: its numbers are printed; Bilibili leaves the page
\* loop at the target or when it cannot turn the page, the other two go on
\* to the next round
EndRound ==
    /\ cpc = "cards"
    /\ to_process = 0 \/ AtTarget
    /\ to_process' = 0
    /\ page' = page + 1
    /\ empty_rounds' = IF video_cards = 0 /\ page_videos = <<>> THEN empty_rounds + 1 ELSE 0
    /\ \E next_ok \in BOOLEAN :
          cpc' = IF spider = "bilibili" /\ (AtTarget \/ ~next_ok) THEN "return" ELSE "loop"
    /\ UNCHANGED <<spider, use_selenium, max_pages_arg, max_pages, max_videos, all_videos, crawl_result,
                   video_cards, card, page_videos, round_error, nonCrawl>>

\* an exception of the driver while a round scrolls or queries the DOM: it is
\* caught around the whole loop, and the records collected so far are returned
BrowserFails ==
    /\ cpc = "loop"
    /\ use_selenium
    /\ page < max_pages
    /\ round_error' \in {"scroll", "query"}
    /\ cpc' = "return"
    /\ UNCHANGED <<spider, use_selenium, max_pages_arg, max_pages, max_videos, page, all_videos,
                   crawl_result, video_cards, to_process, card, page_videos, empty_rounds,
                   nonCrawl>>

\* one page of an API crawl: an empty page ends the loop, anything else is
\* all_videos.extend(videos)
ApiPage ==
    /\ cpc = "loop"
    /\ ~use_selenium
    /\ page < max_pages
    /\ \E items \in ResponseLists :
          LET videos == SearchVideos(spider, items)
          IN  IF videos = <<>>
              THEN /\ cpc' = "return"
                   /\ UNCHANGED <<page, all_videos>>
              ELSE /\ all_videos' = all_videos \o videos
                   /\ page' = page + 1
                   /\ cpc' = "loop"
    /\ UNCHANGED <<spider, use_selenium, max_pages_arg, max_pages, max_videos, crawl_result,
                   video_cards, to_process, card, page_videos, round_error, empty_rounds, nonCrawl>>

\* BilibiliSpider.crawl, except Exception: stop on page 1, otherwise go on
\* with the next page
ApiPageRaises ==
    /\ cpc = "loop"
    /\ ~use_selenium
    /\ spider = "bilibili"
    /\ page < max_pages
    /\ IF page + 1 = 1
       THEN cpc' = "return" /\ page' = page
       ELSE cpc' = "loop" /\ page' = page + 1
    /\ UNCHANGED <<spider, use_selenium, max_pages_arg, max_pages, max_videos, all_videos, crawl_result,
                   video_cards, to_process, card, page_videos, round_error, empty_rounds, nonCrawl>>

\* BilibiliSpider.search_videos when _make_request raises for the new
\* endpoint and again for the old one: [] is returned, and crawl takes the
\* empty page for the end of the results
ApiRequestExhausted ==
    /\ cpc = "loop"
    /\ ~use_selenium
    /\ spider = "bilibili"
    /\ page < max_pages
    /\ round_error' = "request"
    /\ cpc' = "return"
    /\ UNCHANGED <<spider, use_selenium, max_pages_arg, max_pages, max_videos, page, all_videos,
                   crawl_result, video_cards, to_process, card, page_videos, empty_rounds,
                   nonCrawl>>

\* the loop is over: crawl returns; Bilibili's browser mode cuts the list
\* to all_videos[:max_videos]
CrawlReturn ==
    /\ cpc = "return" \/ (cpc = "loop" /\ page >= max_pages)
    /\ crawl_result' =
          IF spider = "bilibili" /\ use_selenium /\ Len(all_videos) >= max_videos
          THEN SubSeq(all_videos, 1, max_videos)
          ELSE all_videos
    /\ cpc' = "done"
    /\ UNCHANGED <<spider, use_selenium, max_pages_arg, max_pages, max_videos, page, all_videos,
                   video_cards, to_process, card, page_videos, round_error, empty_rounds, nonCrawl>>

CNext ==
    \/ EnterCrawl \/ BrowserRound \/ ProcessCard \/ EndRound \/ BrowserFails
    \/ ApiPage \/ ApiPageRaises \/ ApiRequestExhausted \/ CrawlReturn

(***************************************************************************)
(* Numbers of the field extractor: float(count_str), count * 10000 and     *)
(* int(count) as IEEE-754 double arithmetic computes them                  *)
(***************************************************************************)
\* bits of a double's significand
MantissaBits == 53

DigitValue(c) == IndexOf(<<"0", "1", "2", "3", "4", "5", "6", "7", "8", "9">>, c) - 1

RECURSIVE DigitsToInt(_)
DigitsToInt(s) ==
    IF s = <<>> THEN 0
    ELSE 10 * DigitsToInt(SubSeq(s, 1, Len(s) - 1)) + DigitValue(s[Len(s)])

\* the decimal a numeral "ddd", "ddd." or "ddd.ddd" denotes: n / 10^d
ParseDecimal(s) ==
    LET dot == IndexOf(s, ".")
        whole == IF dot = 0 THEN s ELSE SubSeq(s, 1, dot - 1)
        frac == IF dot = 0 THEN <<>> ELSE SubSeq(s, dot + 1, Len(s))
    IN  [n |-> DigitsToInt(whole \o frac), d |-> Len(frac)]

\* arithmetic on binary digits is done ChunkBits digits at a time
ChunkBits == 8

\* the width binary digits of n (n < 2^width), most significant first
Pad(n, width) == [i \in 1..width |-> (n \div 2 ^ (width - i)) % 2]

\* binary digits of a natural number below 2^30, most significant first
IntBits(n) ==
    LET width == CHOOSE w \in 0..30 : n < 2 ^ w /\ (w = 0 \/ n >= 2 ^ (w - 1))
    IN  Pad(n, width)

RECURSIVE BitsToInt(_)
BitsToInt(bits) ==
    IF Len(bits) = 0 THEN 0
    ELSE IF Len(bits) = 1 THEN bits[1]
    ELSE LET half == Len(bits) \div 2
         IN  BitsToInt(SubSeq(bits, 1, half)) * 2 ^ (Len(bits) - half)
                 + BitsToInt(SubSeq(bits, half + 1, Len(bits)))

\* at least need binary digits of the fraction r / d (0 <= r < d) and the
\* remainder left after them
RECURSIVE FracBits(_, _, _)
FracBits(r, d, need) ==
    IF need <= 0 THEN [bits |-> <<>>, rem |-> r]
    ELSE LET t == r * 2 ^ ChunkBits
             rest == FracBits(t % d, d, need - ChunkBits)
         IN  [bits |-> Pad(t \div d, ChunkBits) \o rest.bits, rem |-> rest.rem]

\* zero binary digits of r / d (0 < r < d) before its first one
RECURSIVE LeadingZeros(_, _)
LeadingZeros(r, d) == IF 2 * r >= d THEN 0 ELSE 1 + LeadingZeros(2 * r, d)

\* bits + 1
Increment(bits) ==
    IF 0 \notin Range(bits) THEN <<1>> \o [i \in 1..Len(bits) |-> 0]
    ELSE LET last == CHOOSE i \in 1..Len(bits) :
                         bits[i] = 0 /\ \A j \in (i + 1)..Len(bits) : bits[j] = 1
         IN  [i \in 1..Len(bits) |-> IF i < last THEN bits[i] ELSE IF i = last THEN 1 ELSE 0]

Zeros(n) == [i \in 1..n |-> 0]

FloatZero == [m |-> <<>>, e |-> 0]

\* round to nearest, ties to even: bits (first bit 1) are the leading binary
\* digits of a value whose first digit weighs 2^e; sticky tells whether
\* anything non-zero follows them.  A double is [m, e]: MantissaBits digits m
\* and the weight 2^e of the first.
RoundToDouble(bits, sticky, e) ==
    LET padded == bits \o Zeros(MantissaBits + 1)
        kept == SubSeq(padded, 1, MantissaBits)
        round_bit == padded[MantissaBits + 1]
        rest == {padded[i] : i \in (MantissaBits + 2)..Len(padded)}
        up == round_bit = 1 /\ (sticky \/ 1 \in rest \/ kept[MantissaBits] = 1)
        inc == Increment(kept)
    IN  IF ~up THEN [m |-> kept, e |-> e]
        ELSE IF Len(inc) > MantissaBits
             THEN [m |-> SubSeq(inc, 1, MantissaBits), e |-> e + 1]
             ELSE [m |-> inc, e |-> e]

\* float(count_str): the double nearest to n / 10^d
FloatOf(s) ==
    LET dec == ParseDecimal(s)
        den == 10 ^ dec.d
        whole == IntBits(dec.n \div den)
        r == dec.n % den
    IN  IF dec.n = 0 THEN FloatZero
        ELSE IF whole # <<>>
             THEN LET f == FracBits(r, den, MantissaBits + 1)
                  IN  RoundToDouble(whole \o f.bits, f.rem # 0, Len(whole) - 1)
             ELSE LET z == LeadingZeros(r, den)
                      f == FracBits(r * 2 ^ z, den, MantissaBits + 1)
                  IN  RoundToDouble(f.bits, f.rem # 0, -(z + 1))

\* bits * k + carry, worked from the last digits; most significant first
RECURSIVE MulCarry(_, _, _)
MulCarry(bits, k, carry) ==
    IF bits = <<>> THEN IntBits(carry)
    ELSE LET n == IF Len(bits) < ChunkBits THEN Len(bits) ELSE ChunkBits
             t == BitsToInt(SubSeq(bits, Len(bits) - n + 1, Len(bits))) * k + carry
         IN  MulCarry(SubSeq(bits, 1, Len(bits) - n), k, t \div 2 ^ n) \o Pad(t % 2 ^ n, n)

\* count * k for a double count and a small integer k: the exact product,
\* rounded to a double
FloatTimes(f, k) ==
    IF f.m = <<>> THEN FloatZero
    ELSE LET prod == MulCarry(f.m, k, 0)
         IN  RoundToDouble(prod, FALSE, f.e - (MantissaBits - 1) + Len(prod) - 1)

\* int(count): the integer part of a double
IntOf(f) ==
    IF f.m = <<>> \/ f.e < 0 THEN 0
    ELSE BitsToInt(SubSeq(f.m \o Zeros(f.e + 1), 1, f.e + 1))

(***************************************************************************)
(* Regular expressions of the field extractor.  A pattern is a sequence of *)
(* items, each a character class with a greedy quantifier; grp marks the   *)
(* items inside the capturing group.                                       *)
(***************************************************************************)
One(cls) == [cls |-> cls, min |-> 1, many |-> FALSE, grp |-> FALSE]
Opt(cls) == [cls |-> cls, min |-> 0, many |-> FALSE, grp |-> FALSE]
Star(cls) == [cls |-> cls, min |-> 0, many |-> TRUE, grp |-> FALSE]
Plus(cls) == [cls |-> cls, min |-> 1, many |-> TRUE, grp |-> FALSE]

InGroup(items) == [i \in 1..Len(items) |-> [items[i] EXCEPT !.grp = TRUE]]

\* a literal string
Lit(chars) == [i \in 1..Len(chars) |-> One({chars[i]})]

\* (\d+\.?\d*)
Number == InGroup(<<Plus(Digits), Opt({"."}), Star(Digits)>>)

\* [万w]? under re.IGNORECASE
WanOrW == <<Opt({"WAN", "w", "W"})>>

\* \s*
Whitespace == {" ", "\t", "\n"}
Spaces == <<Star(Whitespace)>>

\* [：:]
Colon == <<One({"COLON_FW", ":"})>>

\* the patterns all five lists start with, for the counter's word, the
\* prefix of its second form and the label of its "label: number" form
WordPatterns(word, prefix, label) ==
    << Number \o WanOrW \o Lit(word),
       Number \o WanOrW \o Lit(prefix \o word),
       Lit(label) \o Colon \o Spaces \o Number \o WanOrW,
       Number \o WanOrW \o Spaces \o Lit(word) >>

\* emoji before and after the number
EmojiPatterns(emoji) ==
    << Lit(<<emoji>>) \o Spaces \o Number \o WanOrW,
       Number \o WanOrW \o Spaces \o Lit(<<emoji>>) >>

\* (\d+\.?\d*)\s*万\s*<word>
SpacedWan(word) == Number \o Spaces \o Lit(<<"WAN">>) \o Spaces \o Lit(word)

like_patterns ==
    WordPatterns(<<"ZAN">>, <<"DIAN">>, <<"DIAN", "ZAN">>) \o EmojiPatterns("HEART") \o EmojiPatterns("THUMB")
        \o << SpacedWan(<<"ZAN">>), Number \o Spaces \o Lit(<<"WAN">>) >>

comment_patterns ==
    WordPatterns(<<"PING", "LUN">>, <<"TIAO">>, <<"PING", "LUN">>) \o EmojiPatterns("SPEECH")
        \o << SpacedWan(<<"PING", "LUN">>) >>

view_patterns ==
    WordPatterns(<<"BO", "FANG">>, <<"CI">>, <<"BO", "FANG">>) \o EmojiPatterns("EYE")
        \o << SpacedWan(<<"BO", "FANG">>) >>

share_patterns ==
    WordPatterns(<<"FEN", "XIANG">>, <<"CI">>, <<"FEN", "XIANG">>) \o EmojiPatterns("OUTBOX")
        \o << SpacedWan(<<"FEN", "XIANG">>) >>

collect_patterns ==
    WordPatterns(<<"SHOU", "CANG">>, <<"CI">>, <<"SHOU", "CANG">>) \o EmojiPatterns("STAR")
        \o << Lit(<<"BOOKMARK">>) \o Spaces \o Number \o WanOrW, SpacedWan(<<"SHOU", "CANG">>) >>

\* how many characters from pos on are in cls
RECURSIVE RunLength(_, _, _)
RunLength(text, pos, cls) ==
    IF pos > Len(text) \/ text[pos] \notin cls THEN 0
    ELSE 1 + RunLength(text, pos + 1, cls)

\* backtracking match of the items k.. of pat at pos: the position where each
\* item starts followed by the position after the match, or <<>> when there
\* is none.  TryCount gives item k n characters, then fewer (greedy).
RECURSIVE MatchFrom(_, _, _, _), TryCount(_, _, _, _, _)
MatchFrom(pat, k, text, pos) ==
    IF k > Len(pat) THEN <<pos>>
    ELSE LET run == RunLength(text, pos, pat[k].cls)
         IN  TryCount(pat, k, text, pos, IF pat[k].many \/ run = 0 THEN run ELSE 1)

TryCount(pat, k, text, pos, n) ==
    IF n < pat[k].min THEN <<>>
    ELSE LET rest == MatchFrom(pat, k + 1, text, pos + n)
         IN  IF rest # <<>> THEN <<pos>> \o rest
             ELSE TryCount(pat, k, text, pos, n - 1)

\* re.search(pattern, text): the match at the leftmost position that has one
Search(pat, text) ==
    LET starts == {s \in 1..Len(text) : MatchFrom(pat, 1, text, s) # <<>>}
    IN  IF starts = {} THEN <<>>
        ELSE MatchFrom(pat, 1, text, CHOOSE s \in starts : \A t \in starts : s <= t)

\* match.group(0) and match.group(1)
Group0(text, m) == SubSeq(text, m[1], m[Len(m)] - 1)

Group1(pat, text, m) ==
    LET inside == {i \in 1..Len(pat) : pat[i].grp}
        first == CHOOSE i \in inside : \A j \in inside : i <= j
        last == CHOOSE i \in inside : \A j \in inside : j <= i
    IN  SubSeq(text, m[first], m[last + 1] - 1)

\* str.lower() on the letters the texts contain
Lower(s) == [i \in 1..Len(s) |-> IF s[i] = "W" THEN "w" ELSE s[i]]

\* the factor of the unit suffix
WanFactor == 10000

\* DouyinSpider._parse_count
ParseCount(full_match, count_str) ==
    LET count == FloatOf(count_str)
    IN  IF "WAN" \in Range(full_match) \/ "w" \in Range(Lower(full_match))
        THEN IntOf(FloatTimes(count, WanFactor))
        ELSE IntOf(count)

\* for pattern in patterns: match = re.search(...); if match: value =
\* _parse_count(match); break -- the value stays as it was without a match
FromText(patterns, text, current) ==
    LET hits == {i \in 1..Len(patterns) : Search(patterns[i], text) # <<>>}
    IN  IF hits = {} THEN current
        ELSE LET p == patterns[CHOOSE i \in hits : \A j \in hits : i <= j]
                 m == Search(p, text)
             IN  ParseCount(Group0(text, m), Group1(p, text, m))

(***************************************************************************)
(* Field extractor: DouyinSpider._parse_selenium_element, the interaction  *)
(* counters of one card from the first strategy to the returned record     *)
(***************************************************************************)
\* sanity ceilings of _validate_interaction_data; the view ceiling 10^10 is
\* kept as its tenth
LikeCeiling == 1000000000
CommentCeiling == 100000000
ViewCeilingTenth == 1000000000

CounterNames == {"like_count", "comment_count", "view_count", "share_count", "collect_count"}

NoCounts == [c \in CounterNames |-> 0]

Counts(like, comment, view, share, collect) ==
    [like_count |-> like, comment_count |-> comment, view_count |-> view,
     share_count |-> share, collect_count |-> collect]

\* a > b * 10, without forming b * 10
AboveTenTimes(a, b) == a \div 10 > b \/ (a \div 10 = b /\ a % 10 > 0)

\* DouyinSpider._validate_interaction_data
ValidateInteractionData(data) ==
    LET has_valid_data == \E c \in CounterNames : data[c] > 0
    IN  IF ~has_valid_data THEN FALSE
        ELSE IF data.like_count > LikeCeiling THEN FALSE
        ELSE IF data.comment_count > CommentCeiling THEN FALSE
        ELSE IF AboveTenTimes(data.view_count, ViewCeilingTenth) THEN FALSE
        ELSE IF data.view_count > 0 /\ data.like_count > 0
                /\ data.view_count < data.like_count THEN FALSE
        ELSE IF data.view_count > 0 /\ data.comment_count > 0
                /\ AboveTenTimes(data.comment_count, data.view_count) THEN FALSE
        ELSE TRUE

\* the numerals the cards show for each counter
LikeNumerals == {<<"8", ".", "3">>, <<"1", ".", "1", "3">>}
CommentNumerals == {<<"5", "2", "3">>, <<"0", ".", "5", "7">>}
ViewNumerals == {<<"1", "2", ".", "1">>, <<"5">>}

\* one part of a card's text: nothing, or a numeral with or without the
\* unit suffix
Parts(numerals) == {<<>>} \cup {<<[num |-> n, wan |-> w]>> : n \in numerals, w \in BOOLEAN}

PartText(part, word) ==
    IF part = <<>> THEN <<>>
    ELSE <<part[1].num \o (IF part[1].wan THEN <<"WAN">> ELSE <<>>) \o word>>

RECURSIVE JoinWith(_, _)
JoinWith(pieces, sep) ==
    IF pieces = <<>> THEN <<>>
    ELSE IF Len(pieces) = 1 THEN pieces[1]
    ELSE pieces[1] \o sep \o JoinWith(Tail(pieces), sep)

\* element.text: "<n>[WAN]ZAN MID <n>[WAN]PING LUN MID <n>[WAN]BO FANG"
ElementText(like, comment, view) ==
    JoinWith(PartText(like, <<"ZAN">>) \o PartText(comment, <<"PING", "LUN">>)
                 \o PartText(view, <<"BO", "FANG">>),
             <<" ", "MID", " ">>)

\* the ASCII keywords of the filter (the list also holds Chinese ones)
keywords == {"huawei", "harmony", "mate", "nova", "honor"}

\* the titles the title strategies can end with, as words in lower case:
\* none extracted, one with keywords, one without
Titles == {<<>>, <<"huawei", "mate">>, <<"cat">>}

\* matched_keywords = [kw for kw in keywords if kw in title_lower]
MatchedKeywords(title) == {kw \in keywords : \E i \in 1..Len(title) : title[i] = kw}

\* the title Xiaohongshu's parser uses when none was extracted
XhsPlaceholder == <<"xiaohongshu", "note">>

\* a card of the list page: the ID in its link ("" without one), the title
\* the title strategies end with, and the parts of its text
Elements ==
    [video_id : {"", "id1"}, title : Titles,
     like : Parts(LikeNumerals), comment : Parts(CommentNumerals), view : Parts(ViewNumerals)]

\* what the page-level data map, the detail API and the detail page hold
\* for the card: nothing, plausible counters, or counters that cannot be right
PlausibleData == Counts(200, 10, 5000, 3, 4)
ImplausibleData == Counts(900, 10, 30, 0, 0)
PartialData == Counts(150, 0, 0, 0, 0)
DataChoices == {<<>>, <<PlausibleData>>, <<ImplausibleData>>, <<PartialData>>}

\* what CSS selectors, HTML attributes and page source yield (0: nothing)
FallbackChoices == {NoCounts, Counts(7, 0, 3, 2, 0)}

EIdle ==
    /\ epc = "idle"
    /\ element = [video_id |-> "", title |-> <<>>,
                  like |-> <<>>, comment |-> <<>>, view |-> <<>>]
    /\ cookie_str = FALSE
    /\ counts = NoCounts
    /\ text_counts = NoCounts
    /\ detail_visited = FALSE
    /\ record = <<>>

\* _parse_selenium_element(element, driver, global_data_map)
EStart ==
    /\ epc = "element"
    /\ element \in Elements
    /\ cookie_str \in BOOLEAN
    /\ counts = NoCounts
    /\ text_counts = NoCounts
    /\ detail_visited = FALSE
    /\ record = <<>>

\* the video ID of the link (None is returned without one), then the
\* counters of global_data_map when the video is in it
ReadGlobalData ==
    /\ epc = "element"
    /\ IF element.video_id = ""
       THEN /\ epc' = "returned"
            /\ UNCHANGED counts
       ELSE /\ epc' = "enrich"
            /\ \E global_data \in DataChoices :
                  counts' = IF global_data = <<>> THEN counts ELSE global_data[1]
    /\ UNCHANGED <<element, cookie_str, text_counts, detail_visited, record, nonExtract>>

\* detail_data overlays the counters it has when it passes validation
DetailOverlay(current, detail_data) ==
    IF detail_data # <<>> /\ ValidateInteractionData(detail_data[1])
    THEN [c \in CounterNames |-> IF detail_data[1][c] > 0 THEN detail_data[1][c] ELSE current[c]]
    ELSE current

\* with a cookie the detail API is asked first (api_data.get(c, 0) or c);
\* without API data the detail page is visited unless like, comment and
\* view are all known
Enrich ==
    /\ epc = "enrich"
    /\ \E api_data \in DataChoices, detail_data \in DataChoices :
          LET has_complete_data ==
                  counts.like_count > 0 /\ counts.comment_count > 0 /\ counts.view_count > 0
              from_api == cookie_str /\ api_data # <<>>
          IN  /\ detail_visited' = (~from_api /\ ~has_complete_data)
              /\ counts' =
                  IF from_api
                  THEN [c \in CounterNames |->
                           IF api_data[1][c] # 0 THEN api_data[1][c] ELSE counts[c]]
                  ELSE IF ~has_complete_data
                       THEN DetailOverlay(counts, detail_data)
                       ELSE counts
    /\ epc' = "text"
    /\ UNCHANGED <<element, cookie_str, text_counts, record, nonExtract>>

\* the free-text strategy: every counter whose patterns match element.text
\* is set from the text
FreeText ==
    /\ epc = "text"
    /\ LET text == ElementText(element.like, element.comment, element.view)
       IN  counts' = Counts(FromText(like_patterns, text, counts.like_count),
                            FromText(comment_patterns, text, counts.comment_count),
                            FromText(view_patterns, text, counts.view_count),
                            FromText(share_patterns, text, counts.share_count),
                            FromText(collect_patterns, text, counts.collect_count))
    /\ text_counts' = counts'
    /\ epc' = "fallback"
    /\ UNCHANGED <<element, cookie_str, detail_visited, record, nonExtract>>

\* CSS selectors, HTML attributes and page source fill the counters that
\* are still zero
Fallbacks ==
    /\ epc = "fallback"
    /\ \E found \in FallbackChoices :
          counts' = [c \in CounterNames |-> IF counts[c] = 0 THEN found[c] ELSE counts[c]]
    /\ epc' = "filter"
    /\ UNCHANGED <<element, cookie_str, text_counts, detail_visited, record, nonExtract>>

\* Douyin's keyword filter: None unless the title holds a keyword
DouyinKeywordFilter(title) ==
    IF MatchedKeywords(title) = {} THEN <<>> ELSE <<title>>

\* Xiaohongshu's: the placeholder for a missing title, which is not
\* filtered; any other title needs a keyword
XhsKeywordFilter(title) ==
    LET t == IF title = <<>> THEN XhsPlaceholder ELSE title
    IN  IF t # XhsPlaceholder /\ MatchedKeywords(t) = {} THEN <<>> ELSE <<t>>

\* the keyword filter on the title, then the record
ReturnRecord ==
    /\ epc = "filter"
    /\ record' = IF DouyinKeywordFilter(element.title) = <<>> THEN <<>>
                 ELSE <<[Post_ID |-> element.video_id,
                         Title |-> DouyinKeywordFilter(element.title)[1],
                         Like_Count |-> counts.like_count,
                         Comment_Count |-> counts.comment_count,
                         Collect_Count |-> counts.collect_count,
                         Share_Count |-> counts.share_count,
                         View_Count |-> counts.view_count]>>
    /\ epc' = "returned"
    /\ UNCHANGED <<element, cookie_str, counts, text_counts, detail_visited, nonExtract>>

ENext == ReadGlobalData \/ Enrich \/ FreeText \/ Fallbacks \/ ReturnRecord

(***************************************************************************)
(* Login handling of the browser walkers: crawl_with_selenium of the       *)
(* Douyin and Xiaohongshu spiders, from the login check to the scroll loop *)
(***************************************************************************)
\* seconds of the countdown: range(120, 0, -10) and range(60, 0, -10)
LoginWaitDouyin == 120
LoginWaitXhs == 60
WaitStep == 10

\* the verification loop of the Douyin walker: max_retries = 5 rounds, a
\* round succeeds with at least 3 video links and no login prompt
VerifyRounds == 5
MinVideos == 3

\* the longest the model follows a walker that is blocked in input()
MaxInputWait == 30

VideoCounts == {0, MinVideos - 1, MinVideos}

LIdle ==
    /\ lpc = "idle"
    /\ site = ""
    /\ wall_clears = FALSE
    /\ logged_in = FALSE
    /\ wait_i = 0
    /\ retry = 0
    /\ login_success = FALSE
    /\ elapsed = 0
    /\ input_waited = 0
    /\ cookies_saved = FALSE
    /\ cookies_changed = FALSE
    /\ driver_quit = FALSE
    /\ browser_failed = FALSE

\* the search page is open; the session may be logged in already (cookies
\* loaded), and the person at the browser may or may not ever log in
LStart ==
    /\ lpc = "check"
    /\ site \in {"douyin", "xiaohongshu"}
    /\ wall_clears \in BOOLEAN
    /\ logged_in \in BOOLEAN
    /\ logged_in => wall_clears
    /\ wait_i = 0
    /\ retry = 0
    /\ login_success = FALSE
    /\ elapsed = 0
    /\ input_waited = 0
    /\ cookies_saved = FALSE
    /\ cookies_changed = FALSE
    /\ driver_quit = FALSE
    /\ browser_failed = FALSE

InLoginHandling == lpc \in {"wait", "verify", "input"}

\* _save_cookies(driver): driver.get_cookies() and the write of the file,
\* inside try/except; on a driver that was quit the read raises, False is
\* returned and the file is as it was.  The result is <<saved, changed>>
SaveCookies(quit, saved, changed) ==
    IF quit THEN <<saved, changed>> ELSE <<TRUE, FALSE>>

\* need_login: login indicators on the page; the countdown starts with them
CheckLogin ==
    /\ lpc = "check"
    /\ IF ~logged_in
       THEN /\ lpc' = "wait"
            /\ wait_i' = IF site = "douyin" THEN LoginWaitDouyin ELSE LoginWaitXhs
       ELSE /\ lpc' = "crawl"
            /\ wait_i' = wait_i
    /\ UNCHANGED <<site, wall_clears, logged_in, retry, login_success, elapsed,
                   input_waited, cookies_saved, cookies_changed, driver_quit,
                   browser_failed, nonLogin>>

\* the person at the browser completes the login (not a step of the
\* program); the session gets the cookies of the login
UserLogsIn ==
    /\ InLoginHandling
    /\ wall_clears
    /\ ~logged_in
    /\ logged_in' = TRUE
    /\ cookies_changed' = TRUE
    /\ UNCHANGED <<lpc, site, wall_clears, wait_i, retry, login_success, elapsed,
                   input_waited, cookies_saved, driver_quit, browser_failed, nonLogin>>

\* for i in range(n, 0, -10): time.sleep(10)
WaitTick ==
    /\ lpc = "wait"
    /\ wait_i > 0
    /\ wait_i' = wait_i - WaitStep
    /\ elapsed' = elapsed + WaitStep
    /\ UNCHANGED <<lpc, site, wall_clears, logged_in, retry, login_success,
                   input_waited, cookies_saved, cookies_changed, driver_quit,
                   browser_failed, nonLogin>>

\* after the countdown: refresh and sleep; Xiaohongshu saves the cookies and
\* goes on, Douyin verifies the login
AfterWait ==
    /\ lpc = "wait"
    /\ wait_i = 0
    /\ IF site = "douyin"
       THEN /\ elapsed' = elapsed + 5
            /\ lpc' = "verify"
            /\ UNCHANGED <<cookies_saved, cookies_changed>>
       ELSE /\ elapsed' = elapsed + 3
            /\ lpc' = "crawl"
            /\ LET saved == SaveCookies(driver_quit, cookies_saved, cookies_changed)
               IN  cookies_saved' = saved[1] /\ cookies_changed' = saved[2]
    /\ retry' = 0
    /\ UNCHANGED <<site, wall_clears, logged_in, wait_i, login_success,
                   input_waited, driver_quit, browser_failed, nonLogin>>

\* one round of for retry in range(max_retries): sleep 3, look at the page;
\* success ends the loop and saves the cookies, otherwise sleep 5, refresh,
\* sleep 5 unless it was the last round; after the last round input() is called
VerifyRound ==
    /\ lpc = "verify"
    /\ retry < VerifyRounds
    /\ \E videos \in VideoCounts :
          LET has_login_prompt == ~logged_in
              ok == videos >= MinVideos /\ ~has_login_prompt
          IN  IF ok
              THEN /\ login_success' = TRUE
                   /\ elapsed' = elapsed + 3
                   /\ LET saved == SaveCookies(driver_quit, cookies_saved, cookies_changed)
                      IN  cookies_saved' = saved[1] /\ cookies_changed' = saved[2]
                   /\ lpc' = "crawl"
                   /\ retry' = retry
              ELSE /\ login_success' = FALSE
                   /\ elapsed' = elapsed + 3 + (IF retry < VerifyRounds - 1 THEN 10 ELSE 0)
                   /\ UNCHANGED <<cookies_saved, cookies_changed>>
                   /\ retry' = retry + 1
                   /\ lpc' = IF retry + 1 = VerifyRounds THEN "input" ELSE "verify"
    /\ UNCHANGED <<site, wall_clears, logged_in, wait_i, input_waited, driver_quit,
                   browser_failed, nonLogin>>

\* time passes while input() waits for a line
InputBlocks ==
    /\ lpc = "input"
    /\ input_waited < MaxInputWait
    /\ input_waited' = input_waited + WaitStep
    /\ elapsed' = elapsed + WaitStep
    /\ UNCHANGED <<lpc, site, wall_clears, logged_in, wait_i, retry, login_success,
                   cookies_saved, cookies_changed, driver_quit, browser_failed, nonLogin>>

\* input() returns: "y" goes on and saves the cookies, any other line
\* returns [], and EOFError is caught and the crawl goes on
InputReturns ==
    /\ lpc = "input"
    /\ \E answer \in {"y", "n", "EOFError"} :
          /\ lpc' = IF answer = "n" THEN "cancelled" ELSE "crawl"
          /\ LET saved == IF answer = "y"
                          THEN SaveCookies(driver_quit, cookies_saved, cookies_changed)
                          ELSE <<cookies_saved, cookies_changed>>
             IN  cookies_saved' = saved[1] /\ cookies_changed' = saved[2]
    /\ UNCHANGED <<site, wall_clears, logged_in, wait_i, retry, login_success,
                   elapsed, input_waited, driver_quit, browser_failed, nonLogin>>

\* the scroll loop, from its first round to its end or to the exception
\* that ends it; the site may set cookies on the way
ScrollLoop ==
    /\ lpc = "crawl"
    /\ \E set_cookie \in BOOLEAN : cookies_changed' = (cookies_changed \/ set_cookie)
    /\ browser_failed' \in BOOLEAN
    /\ lpc' = "finally"
    /\ UNCHANGED <<site, wall_clears, logged_in, wait_i, retry, login_success,
                   elapsed, input_waited, cookies_saved, driver_quit, nonLogin>>

\* finally: if driver: driver.quit(); a return [] of the login handling
\* leaves the function here
Finally ==
    /\ lpc \in {"finally", "cancelled"}
    /\ driver_quit' = TRUE
    /\ lpc' = IF lpc = "cancelled" THEN "returned" ELSE "final_save"
    /\ UNCHANGED <<site, wall_clears, logged_in, wait_i, retry, login_success,
                   elapsed, input_waited, cookies_saved, cookies_changed,
                   browser_failed, nonLogin>>

\* after the finally block: if driver: try: self._save_cookies(driver)
\* except: pass; return all_videos
FinalSave ==
    /\ lpc = "final_save"
    /\ LET saved == SaveCookies(driver_quit, cookies_saved, cookies_changed)
       IN  cookies_saved' = saved[1] /\ cookies_changed' = saved[2]
    /\ lpc' = "returned"
    /\ UNCHANGED <<site, wall_clears, logged_in, wait_i, retry, login_success,
                   elapsed, input_waited, driver_quit, browser_failed, nonLogin>>

\* the steps the program takes by itself
LProgram == CheckLogin \/ WaitTick \/ AfterWait \/ VerifyRound \/ ScrollLoop \/ Finally \/ FinalSave

LNext == LProgram \/ UserLogsIn \/ InputBlocks \/ InputReturns

(***************************************************************************)
(* Detail-page enricher: DouyinSpider._get_video_detail_from_page and      *)
(* XiaohongshuSpider._get_note_detail_from_page, called by the walker for  *)
(* the cards of the list page                                              *)
(***************************************************************************)
MaxCards == 3           \* most cards the walker enriches on one list page

\* the handle of the window the walker's list page is in
ListWindow == 1

\* driver.window_handles
Handles(ws) == {ws[i].handle : i \in 1..Len(ws)}

\* the page the window with handle h shows
PageOf(ws, h) == ws[CHOOSE i \in 1..Len(ws) : ws[i].handle = h].page

\* the windows after the one with handle h has loaded page p
Navigate(ws, h, p) ==
    [i \in 1..Len(ws) |-> IF ws[i].handle = h THEN [ws[i] EXCEPT !.page = p] ELSE ws[i]]

\* the windows after window.open: a new tab with a fresh handle, last
OpenTab(ws, p) ==
    Append(ws, [handle |-> 1 + CHOOSE h \in Handles(ws) : \A g \in Handles(ws) : g <= h,
                page |-> p])

\* the windows after driver.close() in the window with handle h
CloseWindow(ws, h) == SelectSeq(ws, LAMBDA w : w.handle # h)

NIdle ==
    /\ npc = "idle"
    /\ enricher = ""
    /\ windows = <<>>
    /\ current_window_handle = 0
    /\ original_window = 0
    /\ cards_left = 0
    /\ returned_data = <<>>

\* the walker is on its list page, alone in the browser or next to another
\* tab, with some cards to enrich
NStart ==
    /\ npc = "call"
    /\ enricher \in {"douyin", "xiaohongshu"}
    /\ windows \in {<<[handle |-> ListWindow, page |-> "list"]>>,
                    <<[handle |-> ListWindow, page |-> "list"],
                      [handle |-> ListWindow + 1, page |-> "other"]>>}
    /\ current_window_handle = ListWindow
    /\ original_window = 0
    /\ cards_left \in 1..MaxCards
    /\ returned_data = <<>>

\* entry of the enricher.  Douyin returns {} for a missing url or ID and
\* otherwise notes original_window; Xiaohongshu notes original_window
EnterEnricher ==
    /\ npc = "call"
    /\ \E url_ok \in BOOLEAN :
          IF enricher = "douyin" /\ ~url_ok
          THEN /\ npc' = "returned"
               /\ returned_data' = <<>>
               /\ UNCHANGED original_window
          ELSE /\ npc' = IF enricher = "douyin" THEN "get" ELSE "open"
               /\ original_window' = current_window_handle
               /\ UNCHANGED returned_data
    /\ UNCHANGED <<enricher, windows, current_window_handle, cards_left, nonEnrich>>

\* Douyin: driver.get(url) in the current window, then the checks on the
\* page: a missing video or a page without the ID returns {}, and so does an
\* exception of driver.get, whatever the window shows by then
DouyinGet ==
    /\ npc = "get"
    /\ \E result \in {"loaded", "missing", "raised_before", "raised_after"} :
          /\ windows' = CASE result = "loaded" -> Navigate(windows, current_window_handle, "detail")
                          [] result = "missing" -> Navigate(windows, current_window_handle, "error")
                          [] result = "raised_before" -> windows
                          [] result = "raised_after" -> Navigate(windows, current_window_handle, "error")
          /\ IF result = "loaded"
             THEN npc' = "extract" /\ UNCHANGED returned_data
             ELSE npc' = "returned" /\ returned_data' = <<>>
    /\ UNCHANGED <<enricher, current_window_handle, original_window, cards_left, nonEnrich>>

\* Douyin: the counters of the detail page, kept when they pass validation;
\* then switch_to.window(original_window) and return
DouyinExtract ==
    /\ npc = "extract"
    /\ \E data \in DataChoices :
          returned_data' = IF data # <<>> /\ ValidateInteractionData(data[1]) THEN data ELSE <<>>
    /\ current_window_handle' = IF original_window \in Handles(windows) THEN original_window ELSE current_window_handle
    /\ npc' = "returned"
    /\ UNCHANGED <<enricher, windows, original_window, cards_left, nonEnrich>>

\* Xiaohongshu: window.open(url, '_blank'), then windows = window_handles;
\* with more than one window the last is switched to, otherwise the
\* function ends without a value; an exception returns {} from the original
\* window
XhsOpen ==
    /\ npc = "open"
    /\ \E result \in {"opened", "blocked", "raised"} :
          /\ windows' = IF result = "opened" THEN OpenTab(windows, "detail") ELSE windows
          /\ IF result # "raised" /\ Len(windows') > 1
             THEN /\ current_window_handle' = windows'[Len(windows')].handle
                  /\ npc' = "read"
             ELSE /\ current_window_handle' = original_window
                  /\ npc' = "returned"
          /\ returned_data' = <<>>
    /\ UNCHANGED <<enricher, original_window, cards_left, nonEnrich>>

\* Xiaohongshu: the counters found in the tab, then driver.close() and
\* switch_to.window(original_window); when close raises, the handler
\* switches back and returns {}
XhsReadAndClose ==
    /\ npc = "read"
    /\ \E data \in DataChoices, close_raises \in BOOLEAN :
          IF close_raises
          THEN /\ windows' = windows
               /\ returned_data' = <<>>
          ELSE /\ windows' = CloseWindow(windows, current_window_handle)
               /\ returned_data' = data
    /\ current_window_handle' = original_window
    /\ npc' = "returned"
    /\ UNCHANGED <<enricher, original_window, cards_left, nonEnrich>>

\* the walker goes on with the next card: its element can be read, and the
\* enricher called for it, only while the list page is what the current
\* window shows
NextCard ==
    /\ npc = "returned"
    /\ cards_left > 1
    /\ cards_left' = cards_left - 1
    /\ npc' = IF PageOf(windows, current_window_handle) = "list" THEN "call" ELSE "returned"
    /\ UNCHANGED <<enricher, windows, current_window_handle, original_window, returned_data, nonEnrich>>

NNext == EnterEnricher \/ DouyinGet \/ DouyinExtract \/ XhsOpen \/ XhsReadAndClose \/ NextCard

(***************************************************************************)
(* Signature engine and the signed API operations:                         *)
(* DouyinSpider.__init__, _init_reverse_engineering, _generate_a_bogus,    *)
(* _get_video_info_via_api, _get_comments_via_api, _search_videos_via_api  *)
(***************************************************************************)
MaxCalls == 2           \* most API operations one client makes in the model

\* what self.dy_js.call('get_ab', query, data) can do: raise (<<>>) or
\* return a signature (<<token>>)
Tokens == {<<"a","b","1">>, <<"a","b","2">>}
GetAbResults == {<<>>} \cup {<<t>> : t \in Tokens}

\* _init_reverse_engineering: the engine it leaves in self.dy_js and the
\* number of execjs.compile calls it made.  Nothing is compiled without
\* execjs or without the bundle file, or when reading the file raises; with
\* a node_modules directory there is one compile call; without one, a compile
\* call that raises is followed by a second one
InitReverseEngineering(execjs, bundle, modules, read_ok, first_ok, second_ok) ==
    IF ~execjs \/ ~bundle \/ ~read_ok THEN [dy_js |-> FALSE, compile_calls |-> 0]
    ELSE IF modules \/ first_ok THEN [dy_js |-> first_ok, compile_calls |-> 1]
    ELSE [dy_js |-> second_ok, compile_calls |-> 2]

\* what subprocess.Popen can be before the construction: the class itself
\* or a replacement another module has installed
PopenValues == {<<"Popen">>, <<"wrapped", "Popen">>}

\* partial(original_popen, encoding="utf-8")
PartialPopen(original_popen) == <<"partial">> \o original_popen

\* the mutation of PopenAssignments: the restoration is the last statement
\* of the try block instead of a finally block
PopenAssignmentsNoFinally(execjs, bundle, read_ok, compiled, original_popen) ==
    IF ~execjs \/ ~bundle THEN <<>>
    ELSE IF read_ok /\ compiled THEN <<PartialPopen(original_popen), original_popen>>
    ELSE <<PartialPopen(original_popen)>>

\* the assignments _init_reverse_engineering makes to subprocess.Popen, in
\* order: none without execjs or without the bundle file; otherwise the
\* partial is installed before the file is read, and the finally block puts
\* original_popen back whether the read and the compile worked or raised
PopenAssignments(execjs, bundle, read_ok, compiled, original_popen) ==
    IF ~execjs \/ ~bundle THEN <<>>
    ELSE <<PartialPopen(original_popen), original_popen>>

\* a plausible slip: a signature is asked for whether or not an engine was
\* compiled
GenerateABogusWithoutEngine(engine, get_ab) == get_ab

\* _generate_a_bogus: None (<<>>) without an engine or when get_ab raises
GenerateABogus(engine, get_ab) == IF ~engine THEN <<>> ELSE get_ab

\* the API endpoint of an operation
Endpoint(op) ==
    CASE op = "detail" -> "/aweme/v1/web/aweme/detail/"
      [] op = "comment" -> "/aweme/v1/web/comment/list/"
      [] op = "search" -> "/aweme/v1/web/general/search/single/"

\* the constant parameters of the three operations, of which the model keeps two
BaseParams ==
    << [k |-> "device_platform", v |-> <<"w","e","b","a","p","p">>],
       [k |-> "aid", v |-> <<"6","3","8","3">>] >>

\* the parameters an operation adds for its subject
SubjectParams(op, subject) ==
    CASE op = "detail" -> << [k |-> "aweme_id", v |-> subject] >>
      [] op = "comment" -> << [k |-> "aweme_id", v |-> subject],
                              [k |-> "cursor", v |-> <<"0">>],
                              [k |-> "item_type", v |-> <<"0">>] >>
      [] op = "search" -> << [k |-> "keyword", v |-> subject],
                             [k |-> "offset", v |-> <<"0">>] >>

\* the subjects the model calls an operation with: a video ID, a keyword
Subjects(op) == IF op = "search" THEN {<<"x">>, <<"a"," ","b">>} ELSE {<<"7">>}

\* verifyFp and fp from the cookie's s_v_web_id, webid, and msToken from the
\* cookie or generated (the generated one may hold '=')
AuthParams(cookie) ==
    (IF cookie = "full"
     THEN << [k |-> "verifyFp", v |-> <<"v","f","p">>], [k |-> "fp", v |-> <<"v","f","p">>] >>
     ELSE <<>>)
    \o << [k |-> "webid", v |-> IF cookie = "none" THEN <<"1","9">> ELSE <<"7","3">>] >>
    \o << [k |-> "msToken", v |-> IF cookie = "full" THEN <<"m","s">> ELSE <<"A","=","b">>] >>

\* _generate_webid: with a cookie string, the page is fetched to read the ID
WebidRequests(cookie) ==
    IF cookie = "none" THEN <<>> ELSE <<[url |-> "page", params |-> <<>>]>>

\* if a_bogus: params['a_bogus'] = a_bogus
WithSignature(p, a_bogus) ==
    IF a_bogus # <<>> THEN Append(p, [k |-> "a_bogus", v |-> a_bogus[1]]) ELSE p

\* a plausible slip: no request without a signature
ApiRequestsOnlySigned(op, p, a_bogus) ==
    IF a_bogus = <<>> THEN <<>>
    ELSE <<[url |-> Endpoint(op), params |-> WithSignature(p, a_bogus)]>>

\* self.session.get(url, params=params, ...)
ApiRequests(op, p, a_bogus) == <<[url |-> Endpoint(op), params |-> WithSignature(p, a_bogus)]>>

SIdle ==
    /\ spc = "idle"
    /\ execjs_available = FALSE
    /\ dy_ab_path = FALSE
    /\ node_modules = FALSE
    /\ api_cookie = ""
    /\ dy_js = FALSE
    /\ compile_calls = 0
    /\ calls_left = 0
    /\ call_log = <<>>
    /\ popen_before = <<"Popen">>
    /\ popen = <<"Popen">>
    /\ popen_log = <<>>

\* a client about to be constructed, on a machine with or without execjs,
\* the bundle file and a node_modules directory, with or without a cookie
SStart ==
    /\ spc = "new"
    /\ execjs_available \in BOOLEAN
    /\ dy_ab_path \in BOOLEAN
    /\ node_modules \in BOOLEAN
    /\ api_cookie \in {"none", "plain", "full"}
    /\ dy_js = FALSE
    /\ compile_calls = 0
    /\ calls_left \in 1..MaxCalls
    /\ call_log = <<>>
    /\ popen_before \in PopenValues
    /\ popen = popen_before
    /\ popen_log = <<>>

\* DouyinSpider.__init__: self.dy_js = None; self._init_reverse_engineering()
Construct ==
    /\ spc = "new"
    /\ \E read_ok, first_ok, second_ok \in BOOLEAN :
          LET r == InitReverseEngineering(execjs_available, dy_ab_path, node_modules,
                                          read_ok, first_ok, second_ok)
              a == PopenAssignments(execjs_available, dy_ab_path, read_ok,
                                    r.dy_js, popen)
          IN  /\ dy_js' = r.dy_js
              /\ compile_calls' = compile_calls + r.compile_calls
              /\ popen_log' = a
              /\ popen' = IF a = <<>> THEN popen ELSE a[Len(a)]
    /\ spc' = "ready"
    /\ UNCHANGED <<execjs_available, dy_ab_path, node_modules, api_cookie, calls_left,
                   call_log, popen_before, nonSign>>

\* the part the three operations share: the parameters are built, sorted,
\* spliced and signed, and the request is sent
ApiOperation(op) ==
    /\ spc = "ready"
    /\ calls_left > 0
    /\ calls_left' = calls_left - 1
    /\ \E subject \in Subjects(op), get_ab \in GetAbResults :
          LET p == BaseParams \o SubjectParams(op, subject) \o AuthParams(api_cookie)
              q == SpliceUrl(SortParams(p))
              a_bogus == GenerateABogus(dy_js, get_ab)
          IN  call_log' = Append(call_log,
                                 [op |-> op, params |-> p, query_str |-> q, a_bogus |-> a_bogus,
                                  requests |-> WebidRequests(api_cookie)
                                               \o ApiRequests(op, p, a_bogus)])
    /\ UNCHANGED <<spc, execjs_available, dy_ab_path, node_modules, api_cookie, dy_js,
                   compile_calls, popen_before, popen, popen_log, nonSign>>

GetVideoInfoViaApi == ApiOperation("detail")

GetCommentsViaApi == ApiOperation("comment")

SearchVideosViaApi == ApiOperation("search")

SNext == Construct \/ GetVideoInfoViaApi \/ GetCommentsViaApi \/ SearchVideosViaApi

(***************************************************************************)
(* Top comments of one post: get_comments of the three spiders, one action *)
(* per extraction path                                                     *)
(***************************************************************************)
MaxTopN == 2
MaxComments == 2
MaxBlocks == 2

\* elements the DOM paths read before sorting
DouyinElementCap == 20
XhsElementCap == 30

\* like counts of the comments a page or a response holds
LikeValues == {1, 2}

\* the comment patterns of the page-source paths, in the order tried
PatternIndexes == 1..2

CommentPaths ==
    {"bilibili_api", "douyin_api", "douyin_json", "douyin_dom",
     "xhs_script", "xhs_json", "xhs_dom"}

\* the paths that run the comment patterns over the page source
PatternPaths == {"douyin_json", "xhs_json"}

\* the comments of one list, by their like counts, in page order
CommentLists == UNION {[1..n -> LikeValues] : n \in 0..MaxComments}

\* what a path collects: for a pattern path, the blocks the patterns match
\* (pattern by pattern, each in page order); for the others one list
BlocksOf(p) ==
    IF p \in PatternPaths
    THEN {bs \in UNION {[1..n -> [pattern : PatternIndexes, likes : CommentLists]]
                           : n \in 0..MaxBlocks} :
             \A i \in 1..Len(bs) - 1 : bs[i].pattern <= bs[i + 1].pattern}
    ELSE {<<[pattern |-> 1, likes |-> l]>> : l \in CommentLists}

\* list[:n]
Take(list, n) == SubSeq(list, 1, IF n < Len(list) THEN n ELSE Len(list))

\* the list with its first occurrence of the largest like count in front
RECURSIVE SortByLikes(_)
SortByLikes(list) ==
    IF list = <<>> THEN <<>>
    ELSE LET top == CHOOSE i \in 1..Len(list) :
                       /\ \A j \in 1..Len(list) : list[j] <= list[i]
                       /\ \A j \in 1..(i - 1) : list[j] < list[i]
         IN  <<list[top]>> \o SortByLikes(SubSeq(list, 1, top - 1) \o SubSeq(list, top + 1, Len(list)))

\* sorted(list, key=like, reverse=True)[:n]
TopN(list, n) == Take(SortByLikes(list), n)

\* the mutation of TopN: the first n of the list as it is
FirstN(list, n) == Take(list, n)

\* the like counts of every block, in order
AllLikes(blocks) == Concat([i \in 1..Len(blocks) |-> blocks[i].likes])

\* Douyin's page-source path: every comment of every block is appended
DouyinJsonComments(blocks, n) == AllLikes(blocks)

\* Xiaohongshu's page-source path: for each pattern, the top n of its first
\* block that holds a comment are appended, and the next pattern is tried
XhsJsonComments(blocks, n) ==
    Concat([p \in PatternIndexes |->
               LET hits == {i \in 1..Len(blocks) :
                               blocks[i].pattern = p /\ blocks[i].likes # <<>>}
               IN  IF hits = {} THEN <<>>
                   ELSE TopN(blocks[CHOOSE i \in hits : \A j \in hits : i <= j].likes, n)])

\* the comment records of a post
CommentRecords(post, likes) ==
    [i \in 1..Len(likes) |-> [Post_ID |-> post, Comment_Like_Count |-> likes[i]]]

MIdle ==
    /\ mpc = "idle"
    /\ comment_path = ""
    /\ top_n = 0
    /\ post_id = ""
    /\ comment_blocks = <<>>
    /\ comments = <<>>

\* get_comments(post_id, top_n=N) about to run on a page or response whose
\* comments the given path finds
MStart ==
    /\ mpc = "call"
    /\ comment_path \in CommentPaths
    /\ top_n \in 1..MaxTopN
    /\ post_id \in {"p1", "p2"}
    /\ comment_blocks \in BlocksOf(comment_path)
    /\ comments = <<>>

\* one path of get_comments, from the collected comments to the return
CommentsBy(p, likes) ==
    /\ mpc = "call"
    /\ comment_path = p
    /\ comments' = CommentRecords(post_id, likes)
    /\ mpc' = "returned"
    /\ UNCHANGED <<comment_path, top_n, post_id, comment_blocks, nonComments>>

BilibiliGetComments == CommentsBy("bilibili_api", TopN(AllLikes(comment_blocks), top_n))

DouyinGetCommentsViaApi == CommentsBy("douyin_api", TopN(AllLikes(comment_blocks), top_n))

DouyinCommentsFromJson == CommentsBy("douyin_json", DouyinJsonComments(comment_blocks, top_n))

DouyinCommentsFromElements ==
    CommentsBy("douyin_dom", TopN(Take(AllLikes(comment_blocks), DouyinElementCap), top_n))

XhsCommentsFromScript == CommentsBy("xhs_script", TopN(AllLikes(comment_blocks), top_n))

XhsCommentsFromJson == CommentsBy("xhs_json", XhsJsonComments(comment_blocks, top_n))

XhsCommentsFromElements ==
    CommentsBy("xhs_dom", TopN(Take(AllLikes(comment_blocks), XhsElementCap), top_n))

MNext ==
    \/ BilibiliGetComments
    \/ DouyinGetCommentsViaApi
    \/ DouyinCommentsFromJson
    \/ DouyinCommentsFromElements
    \/ XhsCommentsFromScript
    \/ XhsCommentsFromJson
    \/ XhsCommentsFromElements

(***************************************************************************)
(* Cookie restore: _load_cookies of the Douyin and Xiaohongshu walkers and *)
(* the step of crawl_with_selenium that calls it                           *)
(***************************************************************************)
MaxCookies == 2

\* the keys a saved cookie can have
CookieKeys == {"name", "domain", "expiry"}

\* an element of the unpickled list: a cookie dict with some of the keys,
\* which the browser accepts or rejects, or something that is not a dict
SavedCookies ==
    [is_dict : {TRUE}, keys : {ks \in SUBSET CookieKeys : "name" \in ks}, accepted : BOOLEAN]
        \cup {[is_dict |-> FALSE, keys |-> {}, accepted |-> FALSE]}

\* the cookie file: not there, not readable, not a pickle, or a list
CookieFiles == {"missing", "unreadable", "garbage", "list"}

\* the mutation of StripCookie: the cookie as it was saved
KeepCookie(keys) == keys

\* cookie.pop('domain', None); cookie.pop('expiry', None)
StripCookie(keys) == keys \ {"domain", "expiry"}

\* os.path.exists, open and pickle.load inside the try of _load_cookies:
\* the exception of a failed step, "" without one
LoadError(file) ==
    IF file = "unreadable" THEN "PermissionError"
    ELSE IF file = "garbage" THEN "UnpicklingError"
    ELSE ""

KIdle ==
    /\ kpc = "idle"
    /\ cookie_file = ""
    /\ file_cookies = <<>>
    /\ cookie_i = 0
    /\ handed = <<>>
    /\ browser_cookies = <<>>
    /\ cookies_loaded = <<>>
    /\ page_opened = ""

\* the browser is up and the home page is open; the cookie file is in one
\* of its states
KStart ==
    /\ kpc = "load"
    /\ cookie_file \in CookieFiles
    /\ file_cookies \in UNION {[1..n -> SavedCookies] : n \in 0..MaxCookies}
    /\ (cookie_file # "list") => file_cookies = <<>>
    /\ cookie_i = 0
    /\ handed = <<>>
    /\ browser_cookies = <<>>
    /\ cookies_loaded = <<>>
    /\ page_opened = "home"

\* _load_cookies up to the loop: False without the file, False from the
\* except around everything when open or pickle.load raises
ReadCookieFile ==
    /\ kpc = "load"
    /\ IF cookie_file = "missing" \/ LoadError(cookie_file) # ""
       THEN /\ cookies_loaded' = <<FALSE>>
            /\ kpc' = "returned"
            /\ cookie_i' = cookie_i
       ELSE /\ cookies_loaded' = cookies_loaded
            /\ kpc' = "loop"
            /\ cookie_i' = 1
    /\ UNCHANGED <<cookie_file, file_cookies, handed, browser_cookies, page_opened, nonRestore>>

\* one round of for cookie in cookies: the two pops and add_cookie inside a
\* try; an exception (not a dict, or the browser rejects the cookie) goes
\* to the next cookie
AddCookie ==
    /\ kpc = "loop"
    /\ cookie_i <= Len(file_cookies)
    /\ LET cookie == file_cookies[cookie_i]
       IN  IF ~cookie.is_dict
           THEN UNCHANGED <<handed, browser_cookies>>
           ELSE /\ handed' = Append(handed, StripCookie(cookie.keys))
                /\ browser_cookies' =
                       IF cookie.accepted
                       THEN Append(browser_cookies, StripCookie(cookie.keys))
                       ELSE browser_cookies
    /\ cookie_i' = cookie_i + 1
    /\ UNCHANGED <<kpc, cookie_file, file_cookies, cookies_loaded, page_opened, nonRestore>>

\* after the loop: return True
LoadReturnsTrue ==
    /\ kpc = "loop"
    /\ cookie_i > Len(file_cookies)
    /\ cookies_loaded' = <<TRUE>>
    /\ kpc' = "returned"
    /\ UNCHANGED <<cookie_file, file_cookies, cookie_i, handed, browser_cookies, page_opened,
                   nonRestore>>

\* crawl_with_selenium after the call: a refresh when the cookies were
\* loaded, then driver.get(search_url) in either case
OpenSearchPage ==
    /\ kpc = "returned"
    /\ page_opened' = "search"
    /\ kpc' = "search"
    /\ UNCHANGED <<cookie_file, file_cookies, cookie_i, handed, browser_cookies, cookies_loaded,
                   nonRestore>>

KNext == ReadCookieFile \/ AddCookie \/ LoadReturnsTrue \/ OpenSearchPage

(***************************************************************************)
(* Bilibili's browser walker in detail: search_videos_with_selenium with   *)
(* its detail-API budget and its ways of turning the page                  *)
(***************************************************************************)
MaxApiLimit == 2
MaxBiliPages == 3

\* the BVIDs the cards of the result pages carry ("" for a card without one)
Bvids == {"BV1", "BV2"}

\* use_api = (self.api_limit > 0) and (current_count < self.api_limit)
UseApi(limit, current_count) == limit > 0 /\ current_count < limit

\* the page the URL pagination asks for: page=<page + 1>, in place of an
\* existing page= value or appended
NewUrlPage(current_page) == current_page + 1

BIdle ==
    /\ bpc = "idle"
    /\ api_limit = 0
    /\ bili_max_pages = 0
    /\ bili_max_videos = 0
    /\ bili_page = 0
    /\ bvids = {}
    /\ elements_left = 0
    /\ detail_calls = 0
    /\ browser_page = 0
    /\ url_has_page = FALSE
    /\ next_button = ""

\* BilibiliSpider(api_limit=...).search_videos_with_selenium(keyword,
\* max_pages, max_videos): the browser shows the first page of the results,
\* whose URL has no page parameter
BStart ==
    /\ bpc = "page"
    /\ api_limit \in 0..MaxApiLimit
    /\ bili_max_pages \in 1..MaxBiliPages
    /\ bili_max_videos \in 1..MaxVideosArg
    /\ bili_page = 1
    /\ bvids = {}
    /\ elements_left = 0
    /\ detail_calls = 0
    /\ browser_page = 1
    /\ url_has_page = FALSE
    /\ next_button = ""

\* the elements of the page are queried and cut to the number still needed
BiliPage ==
    /\ bpc = "page"
    /\ \E found \in 0..MaxPageItems :
          elements_left' = ElementsToProcess(Cardinality(bvids), found, bili_max_videos)
    /\ bpc' = "elements"
    /\ next_button' = ""
    /\ UNCHANGED <<api_limit, bili_max_pages, bili_max_videos, bili_page, bvids, detail_calls,
                   browser_page, url_has_page, nonBili>>

\* one element: use_api is decided from the number of records collected;
\* _parse_selenium_element returns None without a BVID and otherwise calls
\* get_video_detail when use_api holds; a record with a new BVID is appended
BiliElement ==
    /\ bpc = "elements"
    /\ elements_left > 0
    /\ Cardinality(bvids) < bili_max_videos
    /\ \E bvid \in Bvids \cup {""} :
          LET use_api == UseApi(api_limit, Cardinality(bvids))
          IN  /\ detail_calls' = IF bvid # "" /\ use_api THEN detail_calls + 1 ELSE detail_calls
              /\ bvids' = IF bvid # "" THEN bvids \cup {bvid} ELSE bvids
    /\ elements_left' = elements_left - 1
    /\ UNCHANGED <<bpc, api_limit, bili_max_pages, bili_max_videos, bili_page, browser_page,
                   url_has_page, next_button, nonBili>>

\* after the elements: the loop is left at the target and after the last
\* page; otherwise the page is turned
BiliAfterElements ==
    /\ bpc = "elements"
    /\ elements_left = 0 \/ Cardinality(bvids) >= bili_max_videos
    /\ bpc' = IF Cardinality(bvids) >= bili_max_videos \/ bili_page >= bili_max_pages
              THEN "returned"
              ELSE "next"
    /\ UNCHANGED <<api_limit, bili_max_pages, bili_max_videos, bili_page, bvids, elements_left,
                   detail_calls, browser_page, url_has_page, next_button, nonBili>>

\* a next-page control is found and the click works: the site shows the
\* next page, with or without a page parameter in its URL
ClickNext ==
    /\ bpc = "next"
    /\ next_button' = "clicked"
    /\ browser_page' = browser_page + 1
    /\ url_has_page' \in BOOLEAN
    /\ bili_page' = bili_page + 1
    /\ bpc' = "page"
    /\ UNCHANGED <<api_limit, bili_max_pages, bili_max_videos, bvids, elements_left,
                   detail_calls, nonBili>>

\* no control is found: new_url is made from driver.current_url and
\* driver.get(new_url) is called; an exception on the way ends the loop
NoNextButton ==
    /\ bpc = "next"
    /\ next_button' = "missing"
    /\ \E raises \in BOOLEAN :
          IF raises
          THEN /\ bpc' = "returned"
               /\ UNCHANGED <<bili_page, browser_page, url_has_page>>
          ELSE /\ browser_page' = NewUrlPage(bili_page)
               /\ url_has_page' = TRUE
               /\ bili_page' = bili_page + 1
               /\ bpc' = "page"
    /\ UNCHANGED <<api_limit, bili_max_pages, bili_max_videos, bvids, elements_left,
                   detail_calls, nonBili>>

\* scrolling to the control or clicking it raises: new_url is made from
\* driver.current_url, but driver.get(new_url) is in the branch for a URL
\* without a page parameter only
ClickRaises ==
    /\ bpc = "next"
    /\ next_button' = "raised"
    /\ \E raises \in BOOLEAN :
          IF raises
          THEN /\ bpc' = "returned"
               /\ UNCHANGED <<bili_page, browser_page, url_has_page>>
          ELSE /\ browser_page' = IF url_has_page THEN browser_page ELSE NewUrlPage(bili_page)
               /\ url_has_page' = TRUE
               /\ bili_page' = bili_page + 1
               /\ bpc' = "page"
    /\ UNCHANGED <<api_limit, bili_max_pages, bili_max_videos, bvids, elements_left,
                   detail_calls, nonBili>>

BNext == BiliPage \/ BiliElement \/ BiliAfterElements \/ ClickNext \/ NoNextButton \/ ClickRaises

(***************************************************************************)
(* Life of the browser in a browser crawl: crawl_with_selenium of the      *)
(* Douyin spider and search_videos_with_selenium of the Bilibili spider,   *)
(* from driver = None to the return                                        *)
(***************************************************************************)
MaxCollected == 4

\* the mutation of QuitIfDriver: the finally block leaves the browser open
QuitNever(d, calls) == <<d, calls>>

\* finally: if driver: driver.quit().  The result is <<driver, quit_calls>>
QuitIfDriver(d, calls) == IF d = "open" THEN <<"quit", calls + 1>> ELSE <<d, calls>>

TIdle ==
    /\ tpc = "idle"
    /\ walker = ""
    /\ driver = "none"
    /\ quit_calls = 0
    /\ videos_collected = 0
    /\ pending_return = FALSE
    /\ step_failed = ""
    /\ returned = -1

\* the imports worked, all_videos = [], driver = None, the outer try is entered
TStart ==
    /\ tpc = "create"
    /\ walker \in {"douyin", "bilibili"}
    /\ driver = "none"
    /\ quit_calls = 0
    /\ videos_collected = 0
    /\ pending_return = FALSE
    /\ step_failed = ""
    /\ returned = -1

\* driver = webdriver.Chrome(...): a browser instance, or an exception that
\* leaves driver None
CreateBrowser ==
    /\ tpc = "create"
    /\ \E raises \in BOOLEAN :
          IF raises
          THEN /\ tpc' = "except"
               /\ step_failed' = "create"
               /\ driver' = driver
          ELSE /\ tpc' = "open_pages"
               /\ step_failed' = step_failed
               /\ driver' = "open"
    /\ UNCHANGED <<walker, quit_calls, videos_collected, pending_return, returned, nonTeardown>>

\* execute_script, driver.get of the home page and of the search page,
\* loading the cookies: directly in the outer try
OpenPages ==
    /\ tpc = "open_pages"
    /\ \E raises \in BOOLEAN :
          IF raises
          THEN /\ tpc' = "except"
               /\ step_failed' = "open_pages"
          ELSE /\ tpc' = IF walker = "douyin" THEN "login" ELSE "loop"
               /\ step_failed' = step_failed
    /\ UNCHANGED <<walker, driver, quit_calls, videos_collected, pending_return, returned,
                   nonTeardown>>

\* the login handling of the Douyin walker, in a try of its own: it goes on
\* to the scroll loop, also after an exception, or leaves by return []
LoginHandling ==
    /\ tpc = "login"
    /\ \E login_outcome \in {"passed", "raises", "abort"} :
          /\ tpc' = IF login_outcome = "abort" THEN "finally" ELSE "loop"
          /\ pending_return' = (login_outcome = "abort")
          /\ step_failed' = IF login_outcome = "raises" THEN "login" ELSE step_failed
    /\ UNCHANGED <<walker, driver, quit_calls, videos_collected, returned, nonTeardown>>

\* one pass of the page or scroll loop: a record is appended, nothing is
\* found, a step outside the inner handlers raises, or the loop ends
LoopRound ==
    /\ tpc = "loop"
    /\ \E event \in {"record", "nothing", "raises", "done"} :
          /\ event = "record" => videos_collected < MaxCollected
          /\ videos_collected' = IF event = "record" THEN videos_collected + 1 ELSE videos_collected
          /\ tpc' = CASE event = "raises" -> "except"
                      [] event = "done" -> "finally"
                      [] OTHER -> "loop"
          /\ step_failed' = IF event = "raises" THEN "loop" ELSE step_failed
    /\ UNCHANGED <<walker, driver, quit_calls, pending_return, returned, nonTeardown>>

\* except Exception as e: the message and the traceback are printed
OuterExcept ==
    /\ tpc = "except"
    /\ tpc' = "finally"
    /\ UNCHANGED <<walker, driver, quit_calls, videos_collected, pending_return, step_failed,
                   returned, nonTeardown>>

\* finally: if driver: driver.quit(); a pending return [] then leaves the
\* function
TeardownFinally ==
    /\ tpc = "finally"
    /\ LET q == QuitIfDriver(driver, quit_calls)
       IN  driver' = q[1] /\ quit_calls' = q[2]
    /\ IF pending_return
       THEN tpc' = "returned" /\ returned' = 0
       ELSE tpc' = "after" /\ returned' = returned
    /\ UNCHANGED <<walker, videos_collected, pending_return, step_failed, nonTeardown>>

\* after the finally block: Douyin tries _save_cookies inside try/except;
\* return all_videos
ReturnAllVideos ==
    /\ tpc = "after"
    /\ returned' = videos_collected
    /\ tpc' = "returned"
    /\ UNCHANGED <<walker, driver, quit_calls, videos_collected, pending_return, step_failed,
                   nonTeardown>>

TNext ==
    \/ CreateBrowser \/ OpenPages \/ LoginHandling \/ LoopRound \/ OuterExcept
    \/ TeardownFinally \/ ReturnAllVideos

(***************************************************************************)
(* Specifications: one per component, the other components at rest         *)
(***************************************************************************)
InitQuery == QStart /\ RIdle /\ CIdle /\ EIdle /\ LIdle /\ NIdle /\ SIdle /\ MIdle /\ KIdle /\ BIdle /\ TIdle

SpecQuery == InitQuery /\ [][QNext]_vars

InitRetry == QIdle /\ RStart /\ CIdle /\ EIdle /\ LIdle /\ NIdle /\ SIdle /\ MIdle /\ KIdle /\ BIdle /\ TIdle

SpecRetry == InitRetry /\ [][RNext]_vars

InitCrawl == QIdle /\ RIdle /\ CStart /\ EIdle /\ LIdle /\ NIdle /\ SIdle /\ MIdle /\ KIdle /\ BIdle /\ TIdle

SpecCrawl == InitCrawl /\ [][CNext]_vars

InitExtract == QIdle /\ RIdle /\ CIdle /\ EStart /\ LIdle /\ NIdle /\ SIdle /\ MIdle /\ KIdle /\ BIdle /\ TIdle

SpecExtract == InitExtract /\ [][ENext]_vars

InitLogin == QIdle /\ RIdle /\ CIdle /\ EIdle /\ LStart /\ NIdle /\ SIdle /\ MIdle /\ KIdle /\ BIdle /\ TIdle

SpecLogin == InitLogin /\ [][LNext]_vars

InitEnrich == QIdle /\ RIdle /\ CIdle /\ EIdle /\ LIdle /\ NStart /\ SIdle /\ MIdle /\ KIdle /\ BIdle /\ TIdle

SpecEnrich == InitEnrich /\ [][NNext]_vars

InitSign == QIdle /\ RIdle /\ CIdle /\ EIdle /\ LIdle /\ NIdle /\ SStart /\ MIdle /\ KIdle /\ BIdle /\ TIdle

SpecSign == InitSign /\ [][SNext]_vars

InitComments == QIdle /\ RIdle /\ CIdle /\ EIdle /\ LIdle /\ NIdle /\ SIdle /\ MStart /\ KIdle /\ BIdle /\ TIdle

SpecComments == InitComments /\ [][MNext]_vars

InitRestore ==
    QIdle /\ RIdle /\ CIdle /\ EIdle /\ LIdle /\ NIdle /\ SIdle /\ MIdle /\ KStart /\ BIdle /\ TIdle

SpecRestore == InitRestore /\ [][KNext]_vars

InitBili ==
    QIdle /\ RIdle /\ CIdle /\ EIdle /\ LIdle /\ NIdle /\ SIdle /\ MIdle /\ KIdle /\ BStart /\ TIdle

SpecBili == InitBili /\ [][BNext]_vars

InitTeardown ==
    QIdle /\ RIdle /\ CIdle /\ EIdle /\ LIdle /\ NIdle /\ SIdle /\ MIdle /\ KIdle /\ BIdle /\ TStart

SpecTeardown == InitTeardown /\ [][TNext]_vars

\* the program's own steps are taken when they can be; nothing obliges the
\* person at the browser or at the terminal to act
SpecLoginFair == SpecLogin /\ WF_vars(LProgram)

(***************************************************************************)
(* Claims on the retrying executor                                         *)
(***************************************************************************)
\* C2: a request that always fails with 503 is attempted exactly
\* max_retries + 1 times over HTTP and then the last error is raised
C2_RetryBound ==
    (rpc = "done" /\ server.forever /\ server.status = 503)
        => /\ http_attempts = max_retries + 1
           /\ outcome = "raised"
           /\ error # ""

\* the waits of one kind in the sleep log
WaitsBy(kind) == {i \in 1..Len(sleep_log) : sleep_log[i].by = kind}

\* C12: a request the server always answers with 404 (a 4xx status other
\* than 429) is attempted exactly once, with no wait and no resubmission,
\* and the call fails
C12_NoRetryOn4xx ==
    (rpc = "done" /\ server.forever /\ server.status = 404)
        => /\ http_attempts = 1
           /\ WaitsBy("retry_wait") = {}
           /\ outcome \in {"raised", "empty"}

\* C13: when the server keeps answering 429, get_video_detail makes a
\* cooldown wait before it returns, and the cooldown is longer than every
\* retry wait of the call
C13_RateLimitCooldown ==
    (rpc = "done" /\ caller = "get_video_detail" /\ server.forever /\ server.status = 429)
        => /\ WaitsBy("cooldown") # {}
           /\ \A c \in WaitsBy("cooldown") : \A w \in WaitsBy("retry_wait") :
                 sleep_log[w].ds < sleep_log[c].ds

(***************************************************************************)
(* Claims on the crawl loops                                               *)
(***************************************************************************)
\* C3: in the list a crawl returned, every record has a non-empty Post_ID
\* and no Post_ID occurs twice
C3_DedupInvariant ==
    cpc = "done" =>
        /\ \A i \in 1..Len(crawl_result) : crawl_result[i].Post_ID # ""
        /\ \A i, j \in 1..Len(crawl_result) :
              crawl_result[i].Post_ID = crawl_result[j].Post_ID => i = j

\* the same for browser-mode crawls only
BrowserCrawlDedup == use_selenium => C3_DedupInvariant

\* C11: in a browser crawl the records collected stay as they are, in their
\* places, whatever later cards and rounds bring, and no ID is collected
\* twice: a card with a collected ID changes nothing, a card with a new ID
\* adds one record, last, with the card's data; the list returned is the
\* collected one or its beginning
C11_FirstWins ==
    /\ [](use_selenium =>
            /\ \A i, j \in 1..Len(all_videos) :
                  all_videos[i].Post_ID = all_videos[j].Post_ID => i = j
            /\ cpc = "done" =>
                  /\ Len(crawl_result) <= Len(all_videos)
                  /\ crawl_result = SubSeq(all_videos, 1, Len(crawl_result)))
    /\ [][use_selenium =>
            /\ Len(all_videos') >= Len(all_videos)
            /\ SubSeq(all_videos', 1, Len(all_videos)) = all_videos
            /\ (cpc = "cards" /\ to_process' < to_process /\ cpc' = "cards") =>
                  LET el == card'[1]
                  IN  IF el.raises \/ el.id = "" \/ el.id \in PostIDsOf(all_videos)
                      THEN all_videos' = all_videos
                      ELSE all_videos' = Append(all_videos, [Post_ID |-> el.id, data |-> el.data])
         ]_vars

\* C11 witness: in the second round a card came with the ID of the record
\* collected in the first round and with other data
C11_Witness ==
    /\ use_selenium /\ cpc = "cards" /\ page = 1
    /\ Len(all_videos) = 1 /\ page_videos = <<>>
    /\ card # <<>> /\ card[1].id = all_videos[1].Post_ID
    /\ card[1].data # all_videos[1].data

\* C19: a card whose parsing raises does not end its round (the cards after
\* it are still to be processed), and a round that raises (while scrolling,
\* refreshing the page-global data or querying the DOM) does not keep the
\* rounds that are left from running
C19_FailureIsolation ==
    use_selenium =>
        /\ (card # <<>> /\ card[1].raises /\ to_process > 0) => cpc = "cards"
        /\ (round_error # "" /\ page < max_pages) => cpc \in {"loop", "cards"}

\* the element half of C19 alone
ElementFailureIsolated ==
    (use_selenium /\ card # <<>> /\ card[1].raises /\ to_process > 0) => cpc = "cards"

\* the first card of a round raised and the round has cards to come
ElementFailureSeen ==
    /\ use_selenium /\ cpc = "cards" /\ video_cards = 2 /\ to_process = 1
    /\ card # <<>> /\ card[1].raises

\* the rounds a stall is made of, at the least
StallRounds == 1

\* the latest StallRounds rounds found no element and added no record
Stalled == empty_rounds >= StallRounds

\* C20: after StallRounds consecutive rounds without an element and without
\* a new record the loop is over, although the page cap is not reached
C20_StallDetection ==
    (use_selenium /\ Stalled) => ~(cpc \in {"loop", "cards"} /\ page < max_pages)

\* Bilibili's browser crawl
BilibiliBrowser == spider = "bilibili" /\ use_selenium

\* C24: BilibiliSpider.crawl(max_videos=N, use_selenium=True) collects and
\* returns at most N records, and once N records are collected no further
\* element is processed and the page loop is left
C24_TargetCount ==
    /\ [](BilibiliBrowser =>
             /\ Len(all_videos) <= max_videos
             /\ Len(crawl_result) <= max_videos
             /\ (AtTarget /\ page >= 1) => cpc \in {"cards", "return", "done"})
    /\ [][(BilibiliBrowser /\ AtTarget /\ cpc = "cards") =>
             (cpc' = "return" /\ all_videos' = all_videos /\ card' = card)]_vars

\* the crawl has ended at its target of one record on a page that showed
\* two elements, with pages left under the cap
C24_Witness ==
    /\ BilibiliBrowser /\ cpc = "done" /\ max_videos = 1
    /\ Len(crawl_result) = 1 /\ video_cards = 2 /\ page < max_pages

\* the same for a target of zero: one round, no element processed
ZeroTargetWitness ==
    /\ BilibiliBrowser /\ cpc = "done" /\ max_videos = 0
    /\ video_cards = 2 /\ card = <<>> /\ page = 1 /\ crawl_result = <<>>

\* C26: in API mode a page request that has used up its retries does not
\* end the crawl: the page loop goes on while pages are left
C26_ExhaustionIsLocal ==
    (~use_selenium /\ round_error = "request" /\ page < max_pages) => cpc = "loop"

\* the records of the earlier pages are kept when a page request has used
\* up its retries: they are what crawl returns
ExhaustionKeepsRecords ==
    /\ [][(~use_selenium /\ round_error' = "request") => all_videos' = all_videos]_vars
    /\ []((~use_selenium /\ round_error = "request" /\ cpc = "done") =>
             crawl_result = all_videos)

\* C27: a crawl performs at most as many page or scroll rounds as the
\* max_pages / max_scrolls argument it was called with
C27_PageCapHonoured == page <= max_pages_arg

\* the same for the Douyin and Xiaohongshu walkers alone
ScrollCapHonoured == spider # "bilibili" => page <= max_pages_arg

(***************************************************************************)
(* Claims on the field extractor                                           *)
(***************************************************************************)
\* C4: every record the Douyin browser crawl emits has counters that are
\* not negative and not above their sanity ceilings, and views are not
\* fewer than likes when both are known
C4_CountersSane ==
    (epc = "returned" /\ record # <<>>) =>
        LET r == record[1]
        IN  /\ 0 <= r.Like_Count /\ r.Like_Count <= LikeCeiling
            /\ 0 <= r.Comment_Count /\ r.Comment_Count <= CommentCeiling
            /\ 0 <= r.View_Count /\ ~AboveTenTimes(r.View_Count, ViewCeilingTenth)
            /\ 0 <= r.Share_Count
            /\ 0 <= r.Collect_Count
            /\ (r.View_Count > 0 /\ r.Like_Count > 0) => r.View_Count >= r.Like_Count

\* the detail-page step of one card is being taken
EnrichStep == epc = "enrich" /\ epc' = "text"

\* without a cookie (no detail API) the detail page is visited whenever a
\* counter is zero before the step
EnrichTriggered ==
    [][EnrichStep =>
           ((~cookie_str /\ \E c \in CounterNames : counts[c] = 0) => detail_visited')]_vars

\* a visit of the detail page leaves the counters that were not zero
EnrichKeepsKnown ==
    [][(EnrichStep /\ detail_visited') =>
           \A c \in CounterNames : counts[c] > 0 => counts'[c] = counts[c]]_vars

\* C14: the detail page is visited whenever one of the five counters is
\* zero before the step (and no cookie sends the card to the detail API), and the visit changes only counters that were
\* zero, to a value above zero that passed the plausibility check; a
\* counter that was above zero keeps its value
C14_DetailEnrichment ==
    [][EnrichStep =>
           /\ (~cookie_str /\ \E c \in CounterNames : counts[c] = 0) => detail_visited'
           /\ detail_visited' =>
                 \A c \in CounterNames :
                     /\ counts[c] > 0 => counts'[c] = counts[c]
                     /\ counts'[c] # counts[c] =>
                           (counts'[c] > 0 /\ ValidateInteractionData(counts'))]_vars

\* a step of a strategy that follows the page-level data, the API and the
\* detail page: free text, then selectors, attributes and page source
LaterStrategyStep == epc \in {"text", "fallback"} /\ epc' \in {"fallback", "filter"}

\* C15: a counter that the page-level data, the API or the detail page
\* has set is not replaced by a later strategy
C15_FirstStrategyWins ==
    [][LaterStrategyStep =>
           \A c \in CounterNames : counts[c] > 0 => counts'[c] = counts[c]]_vars

\* what the later strategies never do: the selectors, attributes and page
\* source only fill counters that are still zero
FallbacksKeepKnown ==
    [][(epc = "fallback" /\ epc' = "filter") =>
           \A c \in CounterNames : counts[c] > 0 => counts'[c] = counts[c]]_vars

\* C22: an element whose title holds none of the keywords is discarded,
\* and an element without an extracted title is kept, with a placeholder
\* title
C22_TitleFilter ==
    (epc = "returned" /\ element.video_id # "") =>
        /\ (element.title # <<>> /\ MatchedKeywords(element.title) = {}) => record = <<>>
        /\ element.title = <<>> => (record # <<>> /\ record[1].Title # <<>>)

\* the half of it that both parsers have: a title without a keyword
\* discards the element
MismatchDiscarded ==
    (epc = "returned" /\ element.title # <<>> /\ MatchedKeywords(element.title) = {}) =>
        (record = <<>> /\ XhsKeywordFilter(element.title) = <<>>)

\* Xiaohongshu's filter on the titles of the cards: the placeholder for a
\* missing title, nothing for a title without a keyword
XhsFilterKeepsUntitled ==
    epc = "returned" =>
        XhsKeywordFilter(element.title) =
            IF element.title = <<>> THEN <<XhsPlaceholder>>
            ELSE IF MatchedKeywords(element.title) = {} THEN <<>>
            ELSE <<element.title>>

\* C23: an element is skipped when its ID could not be read from it, and
\* an element with an ID gives a record even if no strategy found its
\* title or any counter, the counters then being zero; only a title that
\* was found and holds no keyword discards it
C23_RecordEmittedWithId ==
    epc = "returned" =>
        /\ element.video_id = "" => record = <<>>
        /\ (element.video_id # ""
              /\ ~(element.title # <<>> /\ MatchedKeywords(element.title) = {}))
           => /\ record # <<>>
              /\ record[1].Post_ID = element.video_id

\* with a title that passes the filter, an element with an ID gives a
\* record whatever the strategies found, and one without an ID gives none
EmittedWhenTitled ==
    epc = "returned" =>
        /\ element.video_id = "" => record = <<>>
        /\ (element.video_id # "" /\ MatchedKeywords(element.title) # {}) => record # <<>>

\* a record whose counters are all zero has been emitted
ZeroCountersEmitted ==
    /\ epc = "returned" /\ record # <<>>
    /\ record[1].Like_Count = 0 /\ record[1].Comment_Count = 0 /\ record[1].View_Count = 0
    /\ record[1].Share_Count = 0 /\ record[1].Collect_Count = 0

\* the free-text strategy has run on the card
FreeTextDone == epc \in {"fallback", "filter"} \/ (epc = "returned" /\ element.video_id # "")

\* the number a part of the text denotes, in whole units: the numeral,
\* times 10000 when the unit suffix follows it
ExactCount(part) ==
    LET dec == ParseDecimal(part.num)
    IN  (dec.n * (IF part.wan THEN WanFactor ELSE 1)) \div (10 ^ dec.d)

\* C9: on a text that shows likes, comments and views as <number>[WAN]ZAN,
\* <number>[WAN]PING LUN and <number>[WAN]BO FANG, the free-text strategy
\* sets each counter to its number, times 10000 exactly with the suffix
C9_FreeTextCounters ==
    (FreeTextDone /\ element.like # <<>> /\ element.comment # <<>> /\ element.view # <<>>) =>
        /\ text_counts.like_count = ExactCount(element.like[1])
        /\ text_counts.comment_count = ExactCount(element.comment[1])
        /\ text_counts.view_count = ExactCount(element.view[1])

\* the text "8.3 WAN ZAN MID 523 PING LUN MID 12.1 WAN BO FANG" of the
\* claim's example gives 83000 likes, 523 comments and 121000 views
FreeTextExample ==
    (/\ FreeTextDone
     /\ element.like = <<[num |-> <<"8", ".", "3">>, wan |-> TRUE]>>
     /\ element.comment = <<[num |-> <<"5", "2", "3">>, wan |-> FALSE]>>
     /\ element.view = <<[num |-> <<"1", "2", ".", "1">>, wan |-> TRUE]>>) =>
        /\ text_counts.like_count = 83000
        /\ text_counts.comment_count = 523
        /\ text_counts.view_count = 121000

\* the same as C9 on texts whose numerals a double holds exactly after the
\* multiplication
FreeTextExactWhenRepresentable ==
    (FreeTextDone /\ element.like # <<>> /\ element.like[1].num # <<"1", ".", "1", "3">>) =>
        text_counts.like_count = ExactCount(element.like[1])

(***************************************************************************)
(* Claims on the login handling                                            *)
(***************************************************************************)
\* C5: when the login wall never clears, the walker that waits for the
\* login ends the wait, going on degraded or giving up, by its own steps
C5_LoginWaitEnds ==
    (lpc = "wait" /\ ~wall_clears) ~> (lpc \in {"crawl", "cancelled"})

\* the login handling ended with the login wall still up: every Douyin
\* verification round failed, or the Xiaohongshu countdown ran out
LoginFailed ==
    /\ ~logged_in
    /\ \/ site = "douyin" /\ retry = VerifyRounds /\ ~login_success
       \/ site = "xiaohongshu" /\ elapsed >= LoginWaitXhs

\* C17: when the login verification failed, crawl_with_selenium has written
\* the cookies to the cookie file by the time it returns, whether the crawl
\* went on or was given up at the prompt
C17_CookiesSavedOnLoginFailure ==
    (lpc = "returned" /\ LoginFailed) => cookies_saved

\* after a failed login the file is left unwritten only by the Douyin
\* walker past its prompt (answers other than "y"); the Xiaohongshu walker,
\* which does not ask, has saved
SavedWhenGoingOn ==
    (lpc = "returned" /\ LoginFailed /\ ~cookies_saved) => (site = "douyin" /\ retry = VerifyRounds)

\* C18: when crawl_with_selenium returns, after a normal end or a browser
\* failure, the cookie file holds the cookies the session had at the end
C18_TeardownSave ==
    lpc = "returned" => (cookies_saved /\ ~cookies_changed)

\* the save after the finally block never writes: the file is as it was
\* when the scroll loop ended
FinalSaveWritesNothing ==
    [][lpc = "final_save" =>
           (cookies_saved' = cookies_saved /\ cookies_changed' = cookies_changed)]_vars

\* the time the countdown and the verification rounds can take
LoginBudget ==
    LoginWaitDouyin + 5 + VerifyRounds * 3 + (VerifyRounds - 1) * 10

\* the same as a bound on the time spent in the login handling
LoginWithinBudget == InLoginHandling => elapsed <= LoginBudget

\* the Xiaohongshu walker, which never asks, ends its wait within the countdown
XhsLoginWaitEnds ==
    (site = "xiaohongshu" /\ InLoginHandling) => elapsed <= LoginWaitXhs

(***************************************************************************)
(* Claims on the detail-page enricher                                      *)
(***************************************************************************)
\* C6: whenever the enricher has returned, on success or on failure, the
\* driver is back in the list window and that window shows the list page
C6_ReturnsToListPage ==
    npc = "returned" => current_window_handle = ListWindow /\ PageOf(windows, current_window_handle) = "list"

\* the same for the Xiaohongshu enricher alone, which works in a tab of its
\* own (switch_to.window is taken to succeed for a window that is open)
XhsReturnsToListPage == enricher = "xiaohongshu" => C6_ReturnsToListPage

(***************************************************************************)
(* Reading a query string back: what the receiving side sees               *)
(***************************************************************************)
\* s.split(sep)
RECURSIVE SplitOn(_, _)
SplitOn(s, sep) ==
    LET i == IndexOf(s, sep)
    IN  IF i = 0 THEN <<s>>
        ELSE <<SubSeq(s, 1, i - 1)>> \o SplitOn(SubSeq(s, i + 1, Len(s)), sep)

\* the character a %XX triple stands for
PercentChar(t) ==
    CASE t = <<"%","2","0">> -> " "
      [] t = <<"%","2","6">> -> "&"
      [] t = <<"%","3","D">> -> "="
      [] t = <<"%","2","5">> -> "%"
      [] t = <<"%","3","F">> -> "?"
      [] OTHER -> "?"

\* urllib.parse.unquote(s)
RECURSIVE Unquote(_)
Unquote(s) ==
    IF s = <<>> THEN <<>>
    ELSE IF Head(s) = "%" /\ Len(s) >= 3
         THEN <<PercentChar(SubSeq(s, 1, 3))>> \o Unquote(SubSeq(s, 4, Len(s)))
         ELSE <<Head(s)>> \o Unquote(Tail(s))

\* the (name, raw value) pairs of a query string: split at '&', then at the first '='
ParsePairs(q) ==
    IF q = <<>> THEN <<>>
    ELSE LET segs == SplitOn(q, "&")
         IN  [i \in 1..Len(segs) |->
                LET e == IndexOf(segs[i], "=")
                IN  IF e = 0 THEN [k |-> segs[i], v |-> None]
                    ELSE [k |-> SubSeq(segs[i], 1, e - 1),
                          v |-> SubSeq(segs[i], e + 1, Len(segs[i]))]]

\* the parameter name written with these characters ("" when it is none of the model's)
NameOf(chars) ==
    IF \E key \in QueryKeys \cup ApiKeys : KeyChars(key) = chars
    THEN CHOOSE key \in QueryKeys \cup ApiKeys : KeyChars(key) = chars
    ELSE ""

Listed(key) == key \in Range(order)

(***************************************************************************)
(* Claims on the canonical query                                           *)
(***************************************************************************)
\* C1: the canonical query lists the keys of p that are in the order table
\* first, in the table's order, then the keys that are not, in their original
\* relative order; no key or value of p is lost, duplicated or changed (a
\* None value is written as the empty text).
C1_StablePartition ==
    qpc = "spliced" =>
        LET pairs == ParsePairs(query_str)
            names == [i \in 1..Len(pairs) |-> NameOf(pairs[i].k)]
            pkeys == DictKeys(params)
        IN  /\ Len(pairs) = Len(params)
            /\ Range(names) = Range(pkeys)
            /\ \A i \in 1..Len(pairs) :
                  /\ pairs[i].v # None
                  /\ Unquote(pairs[i].v) =
                        (IF DictGet(params, names[i]) = None THEN <<>>
                         ELSE DictGet(params, names[i]))
            /\ \A i \in 1..Len(names) : \A j \in (i + 1)..Len(names) :
                  /\ Listed(names[i]) /\ Listed(names[j])
                        => IndexOf(order, names[i]) < IndexOf(order, names[j])
                  /\ ~Listed(names[i]) => ~Listed(names[j])
                  /\ ~Listed(names[i]) /\ ~Listed(names[j])
                        => IndexOf(pkeys, names[i]) < IndexOf(pkeys, names[j])

\* C1 witness: a query was built from a dict in which an unlisted key comes
\* before a listed one, with two unlisted and two listed keys out of table order
C1_Witness ==
    /\ qpc = "spliced"
    /\ Len(params) = 3
    /\ ~Listed(params[1].k) /\ Listed(params[2].k) /\ Listed(params[3].k)
    /\ IndexOf(order, params[2].k) > IndexOf(order, params[3].k)

\* the dict of the scenario: {"keyword": "x", "aid": "6383", "offset": "0"}
ScenarioParams ==
    << [k |-> "keyword", v |-> <<"x">>],
       [k |-> "aid", v |-> <<"6","3","8","3">>],
       [k |-> "offset", v |-> <<"0">>] >>

\* C10 as stated: the scenario dict gives "aid=6383&offset=0&keyword=x"
C10_Original ==
    (qpc = "spliced" /\ params = ScenarioParams)
        => query_str = <<"a","i","d","=","6","3","8","3","&","o","f","f","s","e","t","=","0","&","k","e","y","w","o","r","d","=","x">>

\* C10 amended: in the code's table keyword precedes offset, so the scenario
\* dict gives "aid=6383&keyword=x&offset=0"; every query is k=v pairs with
\* URL-encoded values joined by '&', with no leading or trailing separator,
\* one pair per key of the input and none for other keys.
C10_Amended ==
    qpc = "spliced" =>
        LET segs == IF query_str = <<>> THEN <<>> ELSE SplitOn(query_str, "&")
        IN  /\ params = ScenarioParams
                => query_str = <<"a","i","d","=","6","3","8","3","&","k","e","y","w","o","r","d","=","x","&","o","f","f","s","e","t","=","0">>
            /\ Len(segs) = Len(params)
            /\ \A i \in 1..Len(segs) :
                  LET e == IndexOf(segs[i], "=")
                  IN  /\ e > 1
                      /\ NameOf(SubSeq(segs[i], 1, e - 1)) \in Range(DictKeys(params))
                      /\ \A c \in Range(SubSeq(segs[i], e + 1, Len(segs[i]))) :
                            c \in QuoteSafe \cup {"%"}

\* C10 witness: the scenario dict has been spliced
C10_Witness == qpc = "spliced" /\ params = ScenarioParams

(***************************************************************************)
(* Claims on the signature engine and the signed API operations            *)
(***************************************************************************)
\* the requests of an operation that went to its API endpoint
ApiRequestsOf(c) == SelectSeq(c.requests, LAMBDA r : r.url = Endpoint(c.op))

\* the (name, value) pairs of a dict
PairsOf(d) == {<<d[i].k, d[i].v>> : i \in 1..Len(d)}

\* the (name, value) pairs a query string was made of
SignedPairs(q) ==
    LET pairs == ParsePairs(q)
    IN  {<<NameOf(pairs[i].k), Unquote(pairs[i].v)>> : i \in 1..Len(pairs)}

\* on a client without an engine, compute returned None in every operation
\* and the operation went on to its request, unsigned
UnavailableStaysUnavailable ==
    (spc = "ready" /\ ~dy_js) =>
        \A i \in 1..Len(call_log) :
            /\ call_log[i].a_bogus = <<>>
            /\ Len(ApiRequestsOf(call_log[i])) = 1
            /\ "a_bogus" \notin Range(DictKeys(ApiRequestsOf(call_log[i])[1].params))

\* C7 as stated: a failed compilation leaves the engine unavailable,
\* compilation is attempted at most once per client, and every later compute
\* returns None without raising and without compiling again
C7_Original ==
    /\ compile_calls <= 1
    /\ UnavailableStaysUnavailable

\* C7: a failed compilation leaves the engine unavailable; compilation is
\* attempted while the client is constructed only, at most twice there (the
\* second attempt follows a failed first one when no node_modules directory
\* was found), and every later compute returns None without raising and
\* without compiling again
C7_Amended ==
    /\ [](/\ compile_calls <= 2
          /\ compile_calls = 2 => ~node_modules /\ execjs_available /\ dy_ab_path
          /\ UnavailableStaysUnavailable)
    /\ [][spc = "ready" => compile_calls' = compile_calls /\ dy_js' = dy_js]_vars

\* C7 witness: both compile attempts of the constructor failed, and the
\* operations the client made afterwards computed no signature
C7_Witness ==
    /\ spc = "ready" /\ compile_calls = 2 /\ ~dy_js
    /\ Len(call_log) = 2
    /\ \A i \in 1..2 : call_log[i].a_bogus = <<>>

\* C8: every operation sends exactly one request to its API endpoint.
\* Without a signature the request carries the parameters that were built,
\* unchanged and without an a_bogus key; with a signature it carries a_bogus
\* with that value and, besides it, exactly the pairs of the signed query
C8_RequestProceeds ==
    \A i \in 1..Len(call_log) :
        LET c == call_log[i]
            sent == ApiRequestsOf(c)
        IN  /\ Len(sent) = 1
            /\ c.a_bogus = <<>> =>
                  /\ sent[1].params = c.params
                  /\ "a_bogus" \notin Range(DictKeys(sent[1].params))
            /\ c.a_bogus # <<>> =>
                  /\ <<"a_bogus", c.a_bogus[1]>> \in PairsOf(sent[1].params)
                  /\ Cardinality(PairsOf(sent[1].params)) = Len(sent[1].params)
                  /\ PairsOf(sent[1].params) \ {<<"a_bogus", c.a_bogus[1]>>}
                        = SignedPairs(c.query_str)
            /\ PairsOf(c.params) = SignedPairs(c.query_str)

\* C8 witness: a client with an engine made a search for a keyword that
\* needs quoting, for which get_ab raised, and then a comment request that
\* was signed (its unlisted keys moved by the sort, its generated msToken
\* quoted in the signed text)
C8_Witness ==
    /\ Len(call_log) = 2
    /\ call_log[1].op = "search" /\ call_log[1].a_bogus = <<>>
    /\ <<"keyword", <<"a"," ","b">>>> \in PairsOf(call_log[1].params)
    /\ call_log[2].op = "comment" /\ call_log[2].a_bogus # <<>>
    /\ api_cookie = "plain"

(***************************************************************************)
(* Claims on the top comments                                              *)
(***************************************************************************)
\* the like counts of the returned comments, in their order
ReturnedLikes == [i \in 1..Len(comments) |-> comments[i].Comment_Like_Count]

\* the like counts of the candidates the path collected
CollectedLikes ==
    IF comment_path = "douyin_dom" THEN Take(AllLikes(comment_blocks), DouyinElementCap)
    ELSE IF comment_path = "xhs_dom" THEN Take(AllLikes(comment_blocks), XhsElementCap)
    ELSE AllLikes(comment_blocks)

Occurrences(list, v) == Cardinality({i \in 1..Len(list) : list[i] = v})

\* a collected comment with v likes is not among the returned ones
LeftOut(v) == Occurrences(CollectedLikes, v) > Occurrences(ReturnedLikes, v)

\* at most top_n comments, all of the post asked for, in non-increasing
\* order of likes, and none left out that has more likes than a returned one
TopCommentsReturned ==
    /\ Len(comments) <= top_n
    /\ \A i \in 1..Len(comments) : comments[i].Post_ID = post_id
    /\ \A i, j \in 1..Len(comments) : i < j => ReturnedLikes[i] >= ReturnedLikes[j]
    /\ \A v \in LikeValues : LeftOut(v) => \A i \in 1..Len(comments) : v <= ReturnedLikes[i]

\* C16: on every path of every spider, get_comments(post, top_n=N) returns
\* at most N comments of the post, in non-increasing order of likes, and no
\* collected comment that was left out has more likes than a returned one
C16_TopComments == mpc = "returned" => TopCommentsReturned

\* the same on the paths that read one list (API responses, script state
\* and page elements)
ListPathsTopComments ==
    (mpc = "returned" /\ comment_path \notin PatternPaths) => TopCommentsReturned

\* a list path has returned the top two of three comments
ListPathsWitness ==
    /\ mpc = "returned" /\ comment_path = "douyin_api" /\ top_n = 1
    /\ CollectedLikes = <<1, 2>> /\ ReturnedLikes = <<2>>

(***************************************************************************)
(* Claims on the cookie restore                                            *)
(***************************************************************************)
\* _load_cookies has returned
RestoreReturned == kpc \in {"returned", "search"}

\* the dict cookies of the file, with the browser's verdict on each
DictCookies == SelectSeq(file_cookies, LAMBDA c : c.is_dict)

\* C21: without a cookie file that unpickles, _load_cookies returns False,
\* hands the browser nothing, and the walker's next step opens the search
\* page; with one, every cookie handed to the browser is without domain and
\* expiry, and every dict cookie of the file is handed over, whether or
\* not the browser rejected an earlier one
C21_CookieRestore ==
    /\ [](/\ (RestoreReturned /\ cookie_file # "list") =>
                 (cookies_loaded = <<FALSE>> /\ handed = <<>> /\ browser_cookies = <<>>)
          /\ \A i \in 1..Len(handed) : handed[i] \cap {"domain", "expiry"} = {}
          /\ (RestoreReturned /\ cookie_file = "list") =>
                 /\ cookies_loaded = <<TRUE>>
                 /\ Len(handed) = Len(DictCookies)
                 /\ Len(browser_cookies) = Len(SelectSeq(DictCookies, LAMBDA c : c.accepted)))
    /\ [][kpc = "returned" => (kpc' = "search" /\ page_opened' = "search")]_vars

\* a cookie with domain and expiry was taken by the browser after the
\* browser had rejected the one before it
C21_Witness ==
    /\ kpc = "search" /\ cookie_file = "list" /\ Len(file_cookies) = 2
    /\ ~file_cookies[1].accepted /\ file_cookies[1].is_dict
    /\ file_cookies[2].accepted /\ file_cookies[2].keys = CookieKeys
    /\ browser_cookies = <<{"name"}>>

\* the walker has gone on to the search page without cookies after a file
\* that does not unpickle
AnonymousWitness ==
    kpc = "search" /\ cookie_file = "garbage" /\ cookies_loaded = <<FALSE>> /\ browser_cookies = <<>>

(***************************************************************************)
(* Claims on Bilibili's browser walker                                     *)
(***************************************************************************)
\* C25: during one run get_video_detail is called at most api_limit times,
\* and not at all when api_limit is 0
C25_ApiBudget == detail_calls <= api_limit

\* the half of it for api_limit = 0
NoApiWhenZero == api_limit = 0 => detail_calls = 0

\* the calls stop once api_limit records are collected
NoApiPastLimit ==
    [][Cardinality(bvids) >= api_limit => detail_calls' = detail_calls]_vars

\* C28: when the next-page control is missing or clicking it raises, the
\* walker either stops or has the browser on page + 1 when the next round
\* starts, not on the page it has just scraped
C28_PaginationFallback ==
    [][(bpc = "next" /\ next_button' \in {"missing", "raised"}) =>
           \/ bpc' = "returned"
           \/ (browser_page' = bili_page + 1 /\ browser_page' # browser_page)]_vars

\* the same for a missing control alone
MissingButtonFallback ==
    [][(bpc = "next" /\ next_button' = "missing") =>
           \/ bpc' = "returned"
           \/ (browser_page' = bili_page + 1 /\ browser_page' # browser_page)]_vars

(***************************************************************************)
(* Claims on the life of the browser                                       *)
(***************************************************************************)
\* C29: a browser crawl that created a browser has quit it exactly once
\* when it returns, whether the crawl completed, was aborted at the login
\* prompt or hit an exception in a step; it returns the records collected
\* up to that point; the browser is never quit twice, and a crawl without a
\* browser quits nothing
C29_BrowserQuitOnce ==
    /\ quit_calls <= 1
    /\ driver = "none" => quit_calls = 0
    /\ tpc = "returned" =>
          /\ driver # "open"
          /\ driver = "quit" => quit_calls = 1
          /\ returned = videos_collected

\* a crawl with a browser that hit an exception in its loop after it had
\* collected records has returned
C29_Witness ==
    /\ tpc = "returned"
    /\ driver = "quit"
    /\ step_failed = "loop"
    /\ videos_collected > 0
    /\ returned = videos_collected

\* a crawl aborted at the login prompt has returned
AbortWitness == tpc = "returned" /\ pending_return /\ driver = "quit" /\ quit_calls = 1

\* a crawl has completed without an exception
CompletedWitness == tpc = "returned" /\ step_failed = "" /\ ~pending_return /\ quit_calls = 1

(***************************************************************************)
(* Claims on the construction of the Douyin client                         *)
(***************************************************************************)
\* C30: constructing a DouyinSpider leaves subprocess.Popen as it was: the
\* replacement installed for the read and the compile of the bundle is
\* followed by the restoration of the original on every path, and without
\* execjs or without the bundle file nothing is assigned to Popen
C30_PopenRestored ==
    spc # "new" =>
       /\ popen = popen_before
       /\ (~execjs_available \/ ~dy_ab_path) => popen_log = <<>>
       /\ (execjs_available /\ dy_ab_path) =>
             popen_log = <<PartialPopen(popen_before), popen_before>>

\* a construction whose compile failed, on a machine where Popen was
\* already a replacement
C30_Witness ==
    /\ spc = "ready"
    /\ execjs_available /\ dy_ab_path
    /\ compile_calls > 0
    /\ ~dy_js
    /\ popen_before = <<"wrapped", "Popen">>
    /\ popen_log # <<>>

\* a construction that could not read the bundle file
UnreadableBundleWitness ==
    spc = "ready" /\ execjs_available /\ dy_ab_path /\ compile_calls = 0 /\ popen_log # <<>>

\* a construction that compiled the bundle
CompiledWitness == spc = "ready" /\ dy_js /\ popen_log # <<>> /\ popen = popen_before

\* a construction without the bundle file
NoBundleWitness == spc = "ready" /\ ~dy_ab_path /\ execjs_available /\ popen_log = <<>>

====
